---------------------------- MODULE Spec2Model ----------------------------
(***************************************************************************)
(* Model of the collaborative canvas server: the per-room operation log    *)
(* (DrawingState), the room registry (RoomManager) and the socket handlers *)
(* of the coordinator (server.js).                                         *)
(*                                                                         *)
(* Conventions of the translation                                          *)
(*   - a JavaScript field that is absent (undefined) is modelled by the    *)
(*     falsy value of its type: 0 for numbers and user ids, "" for         *)
(*     strings, <<>> for points and stroke ids, FALSE for `undone`;        *)
(*   - a point {x, y} is the tuple <<x, y>>;                               *)
(*   - an operation id `op_${Date.now()}_${++counter}` is modelled by its  *)
(*     counter component, a timestamp only by its presence; `timestamp`    *)
(*     and `color` are payload the log never reads and are left out;       *)
(*   - one action is one handler run to completion (the server is single   *)
(*     threaded); the handlers that only relay or answer (draw-end,        *)
(*     cursor-move, get-rooms, ping) change neither a log nor the          *)
(*     registry and have no action.                                        *)
(***************************************************************************)
EXTENDS Integers, Sequences, FiniteSets, TLC

VARIABLES
    rooms,          \* RoomManager.rooms: room id -> DrawingState
    socketToRoom,   \* RoomManager.socketToRoom: socket id -> room id
    roomUsers,      \* RoomManager.roomUsers: room id -> set of socket ids
    users,          \* server.js users: socket id -> user id (0: no entry)
    ioRooms,        \* socket.io adapter: socket id -> rooms it has joined
    userSeq,        \* socket -> number of connections it has made
    emitted,        \* messages emitted by the handler that ran last
    last,           \* the call handled last and what it returned
    gesture,        \* the draw-start/draw-move run in progress, if any
    clients         \* socket id -> the CanvasManager of its page

vars == <<rooms, socketToRoom, roomUsers, users, ioRooms, userSeq, emitted,
          last, gesture,
          clients>>

-----------------------------------------------------------------------------
(* Bounds of the model *)

MaxLogLen == 3

MaxOpId == 4

MaxRoomOps == 1

MaxRoomOpId == 2

MaxConnects == 1

(* gestures a page makes, points a page puts in one stroke, strokes a page
   holds *)
MaxGestures == 1

MaxLocalPoints == 3

MaxLocalStrokes == 2

(* entries of a log that is saved and loaded again *)
MaxReloadLen == 2

(* strokes an erase is folded over, and points of each *)
MaxFoldStrokes == 2

MaxFoldPoints == 2

(* Program constants *)

DefaultRadius == 20

DefaultLineWidth == 5

DefaultRoomId == "default"

(* Absent values *)

NoPoint == <<>>

NoStroke == <<>>

NoUser == 0

None == 0

-----------------------------------------------------------------------------
(* Generic helpers *)

SeqToSet(s) == { s[i] : i \in DOMAIN s }

-----------------------------------------------------------------------------
(* DrawingState *)

NewDrawingState ==
    [ operationHistory    |-> <<>>,
      currentHistoryIndex |-> -1,
      strokes             |-> <<>>,
      userOperations      |-> <<>>,
      operationIdCounter  |-> 0 ]

(* An operation object as the handlers build it; id is assigned on add. *)
MkOp(type, userId, strokeId, tool, lineWidth, point, radius) ==
    [ id |-> None, type |-> type, userId |-> userId, strokeId |-> strokeId,
      tool |-> tool, lineWidth |-> lineWidth, point |-> point,
      radius |-> radius, undone |-> FALSE, undoneBy |-> NoUser,
      undoneAt |-> FALSE ]

(* strokes.find(s => s.id === operation.strokeId): index of the first match *)
FindStroke(strokes, strokeId) ==
    LET hits == { i \in DOMAIN strokes : strokes[i].id = strokeId }
    IN  IF hits = {} THEN 0 ELSE CHOOSE i \in hits : \A j \in hits : i <= j

(* a filter that also keeps the points at exactly the radius; the fate of a
   point on the circle must tell it from OutsideRadius *)
OutsideOrOnRadius(point, erasePoint, eraseRadius) ==
    LET dx == point[1] - erasePoint[1]
        dy == point[2] - erasePoint[2]
    IN  eraseRadius < 0 \/ dx * dx + dy * dy >= eraseRadius * eraseRadius

(* distance > eraseRadius, on integer coordinates *)
OutsideRadius(point, erasePoint, eraseRadius) ==
    LET dx == point[1] - erasePoint[1]
        dy == point[2] - erasePoint[2]
    IN  eraseRadius < 0 \/ dx * dx + dy * dy > eraseRadius * eraseRadius

(* a draw fold that never looks for the stroke and makes a new one for every
   operation; the distinctness of the stroke ids must tell it from ApplyDraw *)
ApplyDrawAlwaysNew(strokes, operation) ==
    LET created == [ id        |-> operation.strokeId,
                     userId    |-> operation.userId,
                     tool      |-> operation.tool,
                     lineWidth |-> operation.lineWidth,
                     points    |-> <<>> ]
        all     == Append(strokes, created)
    IN  IF operation.point # NoPoint
        THEN [all EXCEPT ![Len(all)].points = Append(@, operation.point)]
        ELSE all

ApplyDraw(strokes, operation) ==
    LET found   == FindStroke(strokes, operation.strokeId)
        created == [ id        |-> operation.strokeId,
                     userId    |-> operation.userId,
                     tool      |-> operation.tool,
                     lineWidth |-> operation.lineWidth,
                     points    |-> <<>> ]
        all     == IF found = 0 THEN Append(strokes, created) ELSE strokes
        idx     == IF found = 0 THEN Len(all) ELSE found
    IN  IF operation.point # NoPoint
        THEN [all EXCEPT ![idx].points = Append(@, operation.point)]
        ELSE all

(* stroke.points.filter(point => distance > eraseRadius) *)
RECURSIVE FilterPoints(_, _, _)
FilterPoints(points, erasePoint, eraseRadius) ==
    IF points = <<>> THEN <<>>
    ELSE (IF OutsideRadius(Head(points), erasePoint, eraseRadius)
          THEN <<Head(points)>> ELSE <<>>)
         \o FilterPoints(Tail(points), erasePoint, eraseRadius)

(* the map callback: the stroke itself, its remainder, or null (<<>>) *)
EraseStroke(stroke, erasePoint, eraseRadius) ==
    IF stroke.tool = "eraser" THEN <<stroke>>
    ELSE LET filteredPoints == FilterPoints(stroke.points, erasePoint, eraseRadius)
         IN  IF Len(filteredPoints) = 0 THEN <<>>
             ELSE <<[stroke EXCEPT !.points = filteredPoints]>>

(* strokes.map(...).filter(stroke => stroke !== null) *)
RECURSIVE EraseStrokes(_, _, _)
EraseStrokes(strokes, erasePoint, eraseRadius) ==
    IF strokes = <<>> THEN <<>>
    ELSE EraseStroke(Head(strokes), erasePoint, eraseRadius)
         \o EraseStrokes(Tail(strokes), erasePoint, eraseRadius)

ApplyErase(strokes, operation) ==
    LET erasePoint  == operation.point
        eraseRadius == IF operation.radius # 0 THEN operation.radius
                       ELSE DefaultRadius
    IN  EraseStrokes(strokes, erasePoint, eraseRadius)

ApplyOperation(strokes, operation) ==
    IF operation.type = "draw" THEN ApplyDraw(strokes, operation)
    ELSE IF operation.type = "erase" THEN ApplyErase(strokes, operation)
    ELSE IF operation.type = "clear" THEN <<>>
    ELSE strokes

(* the loop of rebuildState over operationHistory[i..] *)
RECURSIVE ReplayFrom(_, _, _)
ReplayFrom(history, i, strokes) ==
    IF i > Len(history) THEN strokes
    ELSE ReplayFrom(history, i + 1,
                    IF history[i].undone THEN strokes
                    ELSE ApplyOperation(strokes, history[i]))

(* a rebuild that replays onto the strokes it finds instead of an empty
   array; the idempotence of the rebuild must tell it from RebuildState *)
RebuildStateOnto(ds) ==
    [ds EXCEPT !.strokes = ReplayFrom(ds.operationHistory, 1, ds.strokes),
               !.userOperations = <<>>]

RebuildState(ds) ==
    [ds EXCEPT !.strokes = ReplayFrom(ds.operationHistory, 1, <<>>),
               !.userOperations = <<>>]

GenerateOperationId(ds) == ds.operationIdCounter + 1

(* this.userOperations.get(userId) || [] *)
UserOps(ds, userId) ==
    IF userId \in DOMAIN ds.userOperations THEN ds.userOperations[userId]
    ELSE <<>>

(* the "Track user operations" block of addOperation *)
TrackUserOperation(userOperations, userId, operationId) ==
    IF userId = NoUser THEN userOperations
    ELSE [ u \in DOMAIN userOperations \cup {userId} |->
             IF u = userId
             THEN Append(IF u \in DOMAIN userOperations
                         THEN userOperations[u] ELSE <<>>, operationId)
             ELSE userOperations[u] ]

(* an addOperation of a linear undo stack, which drops the entries flagged
   undone before it appends; the preservation of the log must tell it from
   AddOperation *)
RECURSIVE NotUndone(_)
NotUndone(history) ==
    IF history = <<>> THEN <<>>
    ELSE (IF Head(history).undone THEN <<>> ELSE <<Head(history)>>)
         \o NotUndone(Tail(history))

AddOperationTruncating(ds, operation) ==
    LET kept            == NotUndone(ds.operationHistory)
        operationId     == GenerateOperationId(ds)
        operationWithId == [operation EXCEPT !.id = operationId]
    IN  [ operationHistory    |-> Append(kept, operationWithId),
          currentHistoryIndex |-> Len(kept),
          strokes             |-> ApplyOperation(ds.strokes, operationWithId),
          userOperations      |-> TrackUserOperation(ds.userOperations,
                                      operation.userId, operationId),
          operationIdCounter  |-> operationId ]

(* an addOperation that logs the entry and leaves the fold to the next
   rebuild; the agreement of the derived state with the replay must tell it
   from AddOperation *)
AddOperationWithoutFold(ds, operation) ==
    LET operationId     == GenerateOperationId(ds)
        operationWithId == [operation EXCEPT !.id = operationId]
    IN  [ operationHistory    |-> Append(ds.operationHistory, operationWithId),
          currentHistoryIndex |-> ds.currentHistoryIndex + 1,
          strokes             |-> ds.strokes,
          userOperations      |-> TrackUserOperation(ds.userOperations,
                                      operation.userId, operationId),
          operationIdCounter  |-> operationId ]

(* an addOperation that puts the new entry in front of the log; the order of
   the log must tell it from AddOperation *)
AddOperationInFront(ds, operation) ==
    LET operationId     == GenerateOperationId(ds)
        operationWithId == [operation EXCEPT !.id = operationId]
    IN  [ operationHistory    |-> <<operationWithId>> \o ds.operationHistory,
          currentHistoryIndex |-> ds.currentHistoryIndex + 1,
          strokes             |-> ApplyOperation(ds.strokes, operationWithId),
          userOperations      |-> TrackUserOperation(ds.userOperations,
                                      operation.userId, operationId),
          operationIdCounter  |-> operationId ]

AddOperation(ds, operation) ==
    LET kept == IF ds.currentHistoryIndex < Len(ds.operationHistory) - 1
                THEN SubSeq(ds.operationHistory, 1, ds.currentHistoryIndex + 1)
                ELSE ds.operationHistory
        operationId     == GenerateOperationId(ds)
        operationWithId == [operation EXCEPT !.id = operationId]
    IN  [ operationHistory    |-> Append(kept, operationWithId),
          currentHistoryIndex |-> ds.currentHistoryIndex + 1,
          strokes             |-> ApplyOperation(ds.strokes, operationWithId),
          userOperations      |-> TrackUserOperation(ds.userOperations,
                                      operation.userId, operationId),
          operationIdCounter  |-> operationId ]

Highest(S) == IF S = {} THEN 0 ELSE CHOOSE i \in S : \A j \in S : j <= i

(* the backward scan of undo: index of operationToUndo, 0 for null *)
UndoIndex(ds, userId) ==
    LET userOps == UserOps(ds, userId)
    IN  IF Len(userOps) = 0 THEN 0
        ELSE Highest({ i \in DOMAIN ds.operationHistory :
                         /\ ds.operationHistory[i].id \in SeqToSet(userOps)
                         /\ ~ds.operationHistory[i].undone })

(* an undo that removes the entry from the log instead of flagging it; the
   preservation of the log must tell it from Undo *)
UndoRemoving(ds, userId) ==
    LET i == UndoIndex(ds, userId)
    IN  IF i = 0 THEN ds
        ELSE RebuildState(
               [ds EXCEPT !.operationHistory =
                   SubSeq(@, 1, i - 1) \o SubSeq(@, i + 1, Len(@))])

(* an undo of a linear history, which also steps currentHistoryIndex back;
   the agreement of the index with the length of the log must tell it from
   Undo *)
UndoMovingIndex(ds, userId) ==
    LET i == UndoIndex(ds, userId)
    IN  IF i = 0 THEN ds
        ELSE RebuildState(
               [ds EXCEPT !.operationHistory[i] =
                             [@ EXCEPT !.undone = TRUE, !.undoneBy = userId,
                                       !.undoneAt = TRUE],
                          !.currentHistoryIndex = @ - 1])

Undo(ds, userId) ==
    LET i == UndoIndex(ds, userId)
    IN  IF i = 0 THEN ds
        ELSE RebuildState(
               [ds EXCEPT !.operationHistory[i] =
                   [@ EXCEPT !.undone = TRUE, !.undoneBy = userId,
                             !.undoneAt = TRUE]])

(* a redo whose scan runs forward and so stops at the oldest flagged entry
   of the user; the choice of the highest position must tell it from
   RedoIndex *)
RedoIndexLowest(ds, userId) ==
    LET S == { i \in DOMAIN ds.operationHistory :
                 /\ ds.operationHistory[i].undone
                 /\ ds.operationHistory[i].userId = userId
                 /\ ds.operationHistory[i].undoneBy = userId }
    IN  IF S = {} THEN 0 ELSE CHOOSE i \in S : \A j \in S : i <= j

(* the backward scan of redo: index of operationToRedo, 0 for null *)
RedoIndex(ds, userId) ==
    Highest({ i \in DOMAIN ds.operationHistory :
                /\ ds.operationHistory[i].undone
                /\ ds.operationHistory[i].userId = userId
                /\ ds.operationHistory[i].undoneBy = userId })

(* a redo that clears the undone flag and leaves undoneBy and undoneAt on
   the entry; the absence of markers on unflagged entries must tell it from
   Redo *)
RedoClearingFlagOnly(ds, userId) ==
    LET i == RedoIndex(ds, userId)
    IN  IF i = 0 THEN ds
        ELSE RebuildState(
               [ds EXCEPT !.operationHistory[i] = [@ EXCEPT !.undone = FALSE]])

Redo(ds, userId) ==
    LET i == RedoIndex(ds, userId)
    IN  IF i = 0 THEN ds
        ELSE RebuildState(
               [ds EXCEPT !.operationHistory[i] =
                   [@ EXCEPT !.undone = FALSE, !.undoneBy = NoUser,
                             !.undoneAt = FALSE]])

GetState(ds) == ds.strokes

GetHistory(ds) == ds.operationHistory

(* a clear that starts the numbering of operations again; the distinctness
   of the ids over the life of a room must tell it from Clear *)
ClearResettingCounter(ds) ==
    [ds EXCEPT !.strokes = <<>>, !.operationHistory = <<>>,
               !.currentHistoryIndex = -1, !.userOperations = <<>>,
               !.operationIdCounter = 0]

Clear(ds) ==
    [ds EXCEPT !.strokes = <<>>, !.operationHistory = <<>>,
               !.currentHistoryIndex = -1, !.userOperations = <<>>]

(* the snapshot, serialised by value; the export timestamp is left out *)
ExportState(ds) ==
    [ strokes |-> ds.strokes, operationHistory |-> ds.operationHistory ]

(* ids of the entries of `history` that importState indexes under userId *)
RECURSIVE IndexedIds(_, _)
IndexedIds(history, userId) ==
    IF history = <<>> THEN <<>>
    ELSE (IF Head(history).userId = userId /\ ~Head(history).undone
          THEN <<Head(history).id>> ELSE <<>>)
         \o IndexedIds(Tail(history), userId)

(* an importState that indexes every entry that has a userId, flagged or not;
   the content of the per-user index must tell it from ImportState *)
ImportStateIndexingAll(ds, state) ==
    LET h == state.operationHistory
    IN  [ds EXCEPT !.strokes = state.strokes,
                   !.operationHistory = h,
                   !.currentHistoryIndex = Len(h) - 1,
                   !.userOperations =
                       [ u \in { h[i].userId : i \in DOMAIN h } \ {NoUser} |->
                           IndexedIds([ i \in DOMAIN h |->
                                          [h[i] EXCEPT !.undone = FALSE] ], u) ]]

ImportState(ds, state) ==
    LET indexed == { state.operationHistory[i].userId :
                       i \in { j \in DOMAIN state.operationHistory :
                                 /\ state.operationHistory[j].userId # NoUser
                                 /\ ~state.operationHistory[j].undone } }
    IN  [ds EXCEPT !.strokes = state.strokes,
                   !.operationHistory = state.operationHistory,
                   !.currentHistoryIndex = Len(state.operationHistory) - 1,
                   !.userOperations =
                       [ u \in indexed |-> IndexedIds(state.operationHistory, u) ]]

-----------------------------------------------------------------------------
(* Exceptions.  The operators above compute what a call does when every
   property it reads is there; the ones below say when a call reads a
   property of undefined instead, which throws a TypeError, and what the
   object holds at that moment. *)

(* the erase branch of applyOperation reads erasePoint.x for each point of
   each stroke whose tool is not eraser *)
ApplyThrows(strokes, operation) ==
    /\ operation.type = "erase"
    /\ operation.point = NoPoint
    /\ \E i \in DOMAIN strokes : /\ strokes[i].tool # "eraser"
                                 /\ strokes[i].points # <<>>

(* the loop of rebuildState over operationHistory[i..]: does it throw *)
RECURSIVE ReplayThrows(_, _, _)
ReplayThrows(history, i, strokes) ==
    IF i > Len(history) THEN FALSE
    ELSE IF history[i].undone THEN ReplayThrows(history, i + 1, strokes)
    ELSE IF ApplyThrows(strokes, history[i]) THEN TRUE
    ELSE ReplayThrows(history, i + 1, ApplyOperation(strokes, history[i]))

(* the strokes the loop has built when it throws *)
RECURSIVE ReplayedUntilThrow(_, _, _)
ReplayedUntilThrow(history, i, strokes) ==
    IF i > Len(history) THEN strokes
    ELSE IF history[i].undone THEN ReplayedUntilThrow(history, i + 1, strokes)
    ELSE IF ApplyThrows(strokes, history[i]) THEN strokes
    ELSE ReplayedUntilThrow(history, i + 1,
                            ApplyOperation(strokes, history[i]))

RebuildThrows(ds) == ReplayThrows(ds.operationHistory, 1, <<>>)

(* rebuildState left by the exception: userOperations cleared, the strokes
   replayed so far *)
RebuildStateThrown(ds) ==
    [ds EXCEPT !.strokes = ReplayedUntilThrow(ds.operationHistory, 1, <<>>),
               !.userOperations = <<>>]

AddOperationThrows(ds, operation) == ApplyThrows(ds.strokes, operation)

(* addOperation left by the exception of applyOperation: the entry is pushed
   and counted, the strokes and userOperations are as they were *)
AddOperationThrown(ds, operation) ==
    LET kept == IF ds.currentHistoryIndex < Len(ds.operationHistory) - 1
                THEN SubSeq(ds.operationHistory, 1, ds.currentHistoryIndex + 1)
                ELSE ds.operationHistory
        operationId == GenerateOperationId(ds)
    IN  [ds EXCEPT
           !.operationHistory = Append(kept, [operation EXCEPT !.id = operationId]),
           !.currentHistoryIndex = @ + 1,
           !.operationIdCounter = operationId]

(* the entry undo and redo have flagged when they call rebuildState *)
UndoFlagged(ds, userId) ==
    [ds EXCEPT !.operationHistory[UndoIndex(ds, userId)] =
        [@ EXCEPT !.undone = TRUE, !.undoneBy = userId, !.undoneAt = TRUE]]

RedoFlagged(ds, userId) ==
    [ds EXCEPT !.operationHistory[RedoIndex(ds, userId)] =
        [@ EXCEPT !.undone = FALSE, !.undoneBy = NoUser, !.undoneAt = FALSE]]

UndoThrows(ds, userId) ==
    UndoIndex(ds, userId) # 0 /\ RebuildThrows(UndoFlagged(ds, userId))

RedoThrows(ds, userId) ==
    RedoIndex(ds, userId) # 0 /\ RebuildThrows(RedoFlagged(ds, userId))

-----------------------------------------------------------------------------
(* RoomManager: the registry is the record of its three maps.  A socket    *)
(* with no socketToRoom entry is mapped to "", which the code cannot tell  *)
(* from a missing entry (both are falsy in getRoomId and leaveRoom).       *)

Registry == [ rooms |-> rooms, socketToRoom |-> socketToRoom,
              roomUsers |-> roomUsers ]

CreateRoom(rm, roomId) ==
    IF roomId \in DOMAIN rm.rooms THEN rm
    ELSE [rm EXCEPT
            !.rooms = [ r \in DOMAIN rm.rooms \cup {roomId} |->
                          IF r = roomId THEN NewDrawingState ELSE rm.rooms[r] ],
            !.roomUsers = [ r \in DOMAIN rm.roomUsers \cup {roomId} |->
                              IF r = roomId THEN {} ELSE rm.roomUsers[r] ]]

LeaveRoom(rm, socketId) ==
    LET roomId == rm.socketToRoom[socketId]
    IN  IF roomId # ""
        THEN [rm EXCEPT
                !.roomUsers = [ r \in DOMAIN rm.roomUsers |->
                                  IF r = roomId THEN rm.roomUsers[r] \ {socketId}
                                  ELSE rm.roomUsers[r] ],
                !.socketToRoom[socketId] = ""]
        ELSE rm

JoinRoom(rm, socketId, roomId) ==
    LET left    == LeaveRoom(rm, socketId)
        created == IF roomId \notin DOMAIN left.rooms
                   THEN CreateRoom(left, roomId) ELSE left
    IN  [created EXCEPT
           !.socketToRoom[socketId] = roomId,
           !.roomUsers = [ r \in DOMAIN created.roomUsers |->
                             IF r = roomId
                             THEN created.roomUsers[r] \cup {socketId}
                             ELSE created.roomUsers[r] ]]

GetRoomId(rm, socketId) ==
    IF rm.socketToRoom[socketId] # "" THEN rm.socketToRoom[socketId]
    ELSE DefaultRoomId

(* getRoomState(roomId) is not null *)
HasRoomState(rm, roomId) == roomId \in DOMAIN rm.rooms

(* a deleteRoom that spares no room id; the permanence of the default room
   must tell it from CanDeleteRoom *)
CanDeleteAnyRoom(rm, roomId) ==
    roomId \in DOMAIN rm.roomUsers /\ rm.roomUsers[roomId] = {}

(* a deleteRoom that does not look at the membership; the protection of an
   occupied room must tell it from CanDeleteRoom *)
CanDeleteOccupiedRoom(rm, roomId) ==
    roomId # DefaultRoomId /\ roomId \in DOMAIN rm.roomUsers

(* deleteRoom: what it returns *)
CanDeleteRoom(rm, roomId) ==
    /\ roomId # DefaultRoomId
    /\ roomId \in DOMAIN rm.roomUsers
    /\ rm.roomUsers[roomId] = {}

(* deleteRoom: the registry it leaves *)
DeleteRoom(rm, roomId) ==
    IF CanDeleteRoom(rm, roomId)
    THEN [rm EXCEPT
            !.rooms = [ r \in DOMAIN rm.rooms \ {roomId} |-> rm.rooms[r] ],
            !.roomUsers = [ r \in DOMAIN rm.roomUsers \ {roomId} |->
                              rm.roomUsers[r] ]]
    ELSE rm

GetRoomUsers(rm, roomId) ==
    IF roomId \in DOMAIN rm.roomUsers THEN rm.roomUsers[roomId] ELSE {}

-----------------------------------------------------------------------------
(* Inputs of the model *)

Sockets == {1, 2}

RoomIds == {DefaultRoomId, "x", ""}

(* the stroke id the draw-start handler makes up, stroke_<now>_<random>:
   a fresh value, here named after the room and the operation it is made for *)
ServerStrokeId(roomId, n) == <<"s", roomId, n>>

(* payloads a client sends; an absent tool, lineWidth or radius is "" or 0 *)
DrawStartPayloads ==
    [ strokeId : { <<"c", 1>> }, tool : {""}, lineWidth : {0},
      point : { <<0, 0>> } ]

DrawMovePayloads ==
    [ strokeId : { <<"c", 1>> }, tool : {""}, lineWidth : {0},
      point : { <<5, 5>> } ]

ErasePayloads == [ point : { <<0, 0>> }, radius : {0} ]

(* snapshot files a client loads: one with neither field (both fall back to
   []), and one exported earlier from a canvas where user 1 drew two points
   of a stroke and undid the second *)
DrawEndPayloads == { [ strokeId |-> <<"c", 1>> ] }

CursorPayloads == { [ x |-> 5, y |-> 5 ] }

EmptySnapshot == [ strokes |-> <<>>, operationHistory |-> <<>> ]

SampleSnapshot ==
    ExportState(
      Undo(AddOperation(
             AddOperation(NewDrawingState,
                 MkOp("draw", 1, <<"c", 1>>, "brush", DefaultLineWidth, <<0, 0>>, 0)),
                 MkOp("draw", 1, <<"c", 1>>, "brush", DefaultLineWidth, <<5, 5>>, 0)),
           1))

LoadPayloads == { EmptySnapshot, SampleSnapshot }

-----------------------------------------------------------------------------
(* Messages leaving the server *)

Msg(to, event, payload) == [ to |-> to, event |-> event, payload |-> payload ]

(* one message per recipient, in socket order *)
RECURSIVE ToAll(_, _, _)
ToAll(recipients, event, payload) ==
    IF recipients = {} THEN <<>>
    ELSE LET s == CHOOSE m \in recipients : \A o \in recipients : m <= o
         IN  <<Msg(s, event, payload)>> \o ToAll(recipients \ {s}, event, payload)

(* io.to(roomId): the sockets that joined the socket.io room *)
IoTo(io, roomId) == { s \in Sockets : roomId \in io[s] }

(* socket.to(roomId): the same, except the sender *)
SocketTo(io, socketId, roomId) == IoTo(io, roomId) \ {socketId}

BroadcastUserList(rm, us, io, roomId) ==
    IF roomId = "" THEN <<>>
    ELSE LET userList == { us[sid] : sid \in { t \in GetRoomUsers(rm, roomId) :
                                                  us[t] # NoUser } }
         IN  ToAll(IoTo(io, roomId), "users-list", [ users |-> userList ])

-----------------------------------------------------------------------------
(* The page of a session: CanvasManager, and the handlers main.js hangs on
   the socket.  localStrokes, a Map from stroke id to stroke object, is the
   sequence of its values in insertion order; of a stroke the page keeps,
   only the id and the points are modelled.  currentStroke is the object a
   gesture appends to; attached says that localStrokes still holds that very
   object under its id. *)

PointThrottle == 3

IdAndPoints(stroke) == [ id |-> stroke.id, points |-> stroke.points ]

NoCurrentStroke == [ id |-> NoStroke, points |-> <<>> ]

(* CanvasManager.constructor; strokeSeq counts the gestures, for the ids;
   file is the snapshot file the page has downloaded last, if any, as a
   sequence of at most one snapshot; sent is the payload of the message the
   session has emitted last, where a specification keeps it *)
NewCanvasManager ==
    [ localStrokes |-> <<>>, isDrawing |-> FALSE,
      currentStroke |-> NoCurrentStroke, attached |-> FALSE,
      pointCounter |-> 0, strokeSeq |-> 0, file |-> <<>>, sent |-> <<>> ]

(* currentStrokeId, stroke_<now>_<random>: a fresh value, here named after
   the page and the gestures it made before *)
ClientStrokeId(s, n) == <<"c", s, n>>

(* localStrokes.set(stroke.id, stroke): a known key keeps its place *)
MapSet(localStrokes, stroke) ==
    LET found == FindStroke(localStrokes, stroke.id)
    IN  IF found = 0 THEN Append(localStrokes, stroke)
        ELSE [localStrokes EXCEPT ![found] = stroke]

(* startDrawing with a brush tool selected *)
StartDrawing(c, strokeId, point) ==
    LET stroke == [ id |-> strokeId, points |-> <<point>> ]
    IN  [c EXCEPT !.isDrawing = TRUE,
                  !.currentStroke = stroke,
                  !.attached = TRUE,
                  !.localStrokes = MapSet(@, stroke),
                  !.pointCounter = 0,
                  !.strokeSeq = @ + 1]

(* continueDrawing: the point goes to currentStroke, and so to localStrokes
   when it holds that object *)
ContinueDrawing(c, point) ==
    IF ~c.isDrawing THEN c
    ELSE LET stroke == [c.currentStroke EXCEPT !.points = Append(@, point)]
         IN  [c EXCEPT !.currentStroke = stroke,
                       !.localStrokes = IF c.attached THEN MapSet(@, stroke)
                                        ELSE @,
                       !.pointCounter = @ + 1]

(* the test continueDrawing makes, after counting the point, before it emits
   draw-move *)
EmitsDrawMove(c) ==
    \/ c.pointCounter % PointThrottle = 0
    \/ Len(c.currentStroke.points) = 2

EndDrawing(c) ==
    [c EXCEPT !.isDrawing = FALSE, !.currentStroke = NoCurrentStroke,
              !.attached = FALSE, !.pointCounter = 0]

(* handleRemoteDrawStart: a new object under data.strokeId *)
HandleRemoteDrawStart(c, data) ==
    [c EXCEPT !.localStrokes =
                 MapSet(@, [ id |-> data.strokeId, points |-> <<data.point>> ]),
              !.attached = @ /\ c.currentStroke.id # data.strokeId]

(* handleRemoteDrawMove: nothing when no stroke has the id *)
HandleRemoteDrawMove(c, data) ==
    LET found == FindStroke(c.localStrokes, data.strokeId)
    IN  IF found = 0 THEN c
        ELSE [c EXCEPT
                !.localStrokes[found].points = Append(@, data.point),
                !.currentStroke.points =
                    IF c.attached /\ c.currentStroke.id = data.strokeId
                    THEN Append(@, data.point) ELSE @]

(* a loadCanvasState that keeps what the page holds and adds the received
   strokes; the replacement of the local strokes must tell it from
   LoadCanvasState *)
RECURSIVE LoadCanvasStateMerging(_, _)
LoadCanvasStateMerging(c, strokes) ==
    IF strokes = <<>> THEN c
    ELSE LoadCanvasStateMerging(
             [c EXCEPT !.localStrokes = MapSet(@, IdAndPoints(Head(strokes)))],
             Tail(strokes))

(* strokes.forEach(stroke => localStrokes.set(stroke.id, stroke)) *)
RECURSIVE SetEach(_, _)
SetEach(localStrokes, strokes) ==
    IF strokes = <<>> THEN localStrokes
    ELSE SetEach(MapSet(localStrokes, IdAndPoints(Head(strokes))), Tail(strokes))

(* loadCanvasState: localStrokes.clear(), then the received strokes *)
LoadCanvasState(c, strokes) ==
    [c EXCEPT !.localStrokes = SetEach(<<>>, strokes), !.attached = FALSE]

ClearCanvas(c) == [c EXCEPT !.localStrokes = <<>>, !.attached = FALSE]

(* what the page does with one message: userId is wsManager.userId *)
OnMessage(c, userId, msg) ==
    CASE msg.event = "canvas-state" -> LoadCanvasState(c, msg.payload.strokes)
      [] msg.event = "draw-start" ->
           IF msg.payload.op.userId = userId THEN c
           ELSE HandleRemoteDrawStart(c, msg.payload.op)
      [] msg.event = "draw-move" ->
           IF msg.payload.op.userId = userId THEN c
           ELSE HandleRemoteDrawMove(c, msg.payload.op)
      [] msg.event = "clear" -> ClearCanvas(c)
      [] OTHER -> c

(* the messages of a sequence that are addressed to socket s, handled in the
   order they were sent *)
RECURSIVE Deliver(_, _, _, _)
Deliver(c, userId, s, msgs) ==
    IF msgs = <<>> THEN c
    ELSE Deliver(IF Head(msgs).to = s THEN OnMessage(c, userId, Head(msgs))
                 ELSE c,
                 userId, s, Tail(msgs))

-----------------------------------------------------------------------------
(* State after construction: RoomManager.constructor, empty users map *)

NoGesture == [ socket |-> 0, room |-> "", strokeId |-> NoStroke, points |-> <<>> ]

(* the record of a call: who called what, the id (ret) and log position (idx)
   of the operation it returned (None, 0: it returned null), for undo() the
   strokes getState() held before the call, whether the call ended in an
   exception, and, where a log is loaded, how many calls have been made since
   the load with nothing but undo and redo among them, the load included
   (0: no load, or another call since) *)
Call(kind, socket, user, room, ret, idx) ==
    [ kind |-> kind, socket |-> socket, user |-> user, room |-> room,
      ret |-> ret, idx |-> idx, before |-> <<>>, threw |-> FALSE,
      sinceImport |-> 0 ]

Init ==
    /\ rooms = [ r \in {DefaultRoomId} |-> NewDrawingState ]
    /\ roomUsers = [ r \in {DefaultRoomId} |-> {} ]
    /\ socketToRoom = [ s \in Sockets |-> "" ]
    /\ users = [ s \in Sockets |-> NoUser ]
    /\ ioRooms = [ s \in Sockets |-> {} ]
    /\ userSeq = [ s \in Sockets |-> 0 ]
    /\ emitted = <<>>
    /\ last = Call("init", 0, NoUser, "", None, 0)
    /\ gesture = NoGesture
    /\ clients = [ s \in Sockets |-> NewCanvasManager ]

(* the logs may grow: bounds of the model, not of the program *)
RECURSIVE SumOver(_, _)
SumOver(f, S) ==
    IF S = {} THEN 0
    ELSE LET r == CHOOSE x \in S : TRUE IN f[r] + SumOver(f, S \ {r})

Logged == SumOver([ r \in DOMAIN rooms |-> Len(rooms[r].operationHistory) ],
                  DOMAIN rooms)

Numbered == SumOver([ r \in DOMAIN rooms |-> rooms[r].operationIdCounter ],
                    DOMAIN rooms)

(* while a page is in the middle of a gesture there is room in the logs for
   one more operation *)
Drawing == IF \E s \in DOMAIN clients : clients[s].isDrawing THEN 1 ELSE 0

CanNumber == Numbered < MaxRoomOpId + Drawing

CanAdd == Logged < MaxRoomOps + Drawing /\ CanNumber

SetRegistry(rm) ==
    /\ rooms' = rm.rooms
    /\ socketToRoom' = rm.socketToRoom
    /\ roomUsers' = rm.roomUsers

SetRoomState(roomId, ds) ==
    /\ rooms' = [rooms EXCEPT ![roomId] = ds]
    /\ UNCHANGED <<socketToRoom, roomUsers>>

-----------------------------------------------------------------------------
(* server.js: one action per socket handler *)

Connected(s) == users[s] # NoUser

(* the operation objects the handlers build from a payload *)
(* an operation object that takes the lineWidth as it was sent; the default
   of a message without one must tell it from DrawOperation *)
DrawOperationAsSent(userId, strokeId, data) ==
    MkOp("draw", userId, strokeId,
         IF data.tool # "" THEN data.tool ELSE "brush",
         data.lineWidth, data.point, 0)

DrawOperation(userId, strokeId, data) ==
    MkOp("draw", userId, strokeId,
         IF data.tool # "" THEN data.tool ELSE "brush",
         IF data.lineWidth # 0 THEN data.lineWidth ELSE DefaultLineWidth,
         data.point, 0)

EraseOperation(userId, data) ==
    MkOp("erase", userId, NoStroke, "", 0, data.point,
         IF data.radius # 0 THEN data.radius ELSE DefaultRadius)

ClearOperation(userId) == MkOp("clear", userId, NoStroke, "", 0, NoPoint, 0)

LoadOperation(userId) == MkOp("load", userId, NoStroke, "", 0, NoPoint, 0)

(* generateUserId(), user_<now>_<random>: a fresh value, here numbered after
   the socket and the connections it made before *)
GenerateUserId(s, n) == n * Cardinality(Sockets) + s

(* a connection handler that sends the canvas state before the identity; the
   order of the two messages must tell it from HandleConnection *)
HandleConnectionStateFirst(s) ==
    /\ ~Connected(s)
    /\ userSeq[s] < MaxConnects
    /\ LET userId == GenerateUserId(s, userSeq[s])
           us     == [users EXCEPT ![s] = userId]
           rm     == JoinRoom(Registry, s, DefaultRoomId)
           roomId == GetRoomId(rm, s)
       IN  /\ users' = us
           /\ userSeq' = [userSeq EXCEPT ![s] = @ + 1]
           /\ SetRegistry(rm)
           /\ emitted' =
                <<Msg(s, "canvas-state",
                      [ strokes |-> GetState(rm.rooms[roomId]) ])>>
                \o <<Msg(s, "user-info", [ userId |-> userId ])>>
                \o BroadcastUserList(rm, us, ioRooms, roomId)
           /\ last' = Call("connection", s, userId, roomId, None, 0)
    /\ gesture' = NoGesture
    /\ UNCHANGED ioRooms

(* io.on('connection') *)
HandleConnection(s) ==
    /\ ~Connected(s)
    /\ userSeq[s] < MaxConnects
    /\ LET userId == GenerateUserId(s, userSeq[s])
           us     == [users EXCEPT ![s] = userId]
           rm     == JoinRoom(Registry, s, DefaultRoomId)
           roomId == GetRoomId(rm, s)
       IN  /\ users' = us
           /\ userSeq' = [userSeq EXCEPT ![s] = @ + 1]
           /\ SetRegistry(rm)
           /\ emitted' =
                <<Msg(s, "user-info", [ userId |-> userId ])>>
                \o (IF HasRoomState(rm, roomId)
                    THEN <<Msg(s, "canvas-state",
                               [ strokes |-> GetState(rm.rooms[roomId]) ])>>
                    ELSE <<>>)
                \o BroadcastUserList(rm, us, ioRooms, roomId)
           /\ last' = Call("connection", s, userId, roomId, None, 0)
    /\ gesture' = NoGesture
    /\ UNCHANGED ioRooms

Connect(s) == HandleConnection(s) /\ UNCHANGED clients

(* the stroke id draw-start logs under *)
DrawStartStrokeId(data, roomId, seq) == ServerStrokeId(roomId, seq)

(* socket.on('draw-start') *)
HandleDrawStart(s, data) ==
    /\ Connected(s)
    /\ LET user      == users[s]
             roomId    == GetRoomId(Registry, s)
             strokeId  == DrawStartStrokeId(data, roomId,
                              GenerateOperationId(rooms[roomId]))
             operation == DrawOperation(user, strokeId, data)
             ds        == AddOperation(rooms[roomId], operation)
         IN  /\ HasRoomState(Registry, roomId)
             /\ CanAdd
             /\ SetRoomState(roomId, ds)
             /\ emitted' = ToAll(SocketTo(ioRooms, s, roomId), "draw-start",
                                 [ op |-> [operation EXCEPT
                                             !.id = ds.operationIdCounter] ])
             /\ last' = Call("draw-start", s, user, roomId,
                             ds.operationIdCounter, Len(ds.operationHistory))
             /\ gesture' =
                  IF FindStroke(rooms[roomId].strokes, data.strokeId) = 0
                  THEN [ socket |-> s, room |-> roomId,
                         strokeId |-> data.strokeId, points |-> <<data.point>> ]
                  ELSE NoGesture
    /\ UNCHANGED <<users, ioRooms, userSeq>>

DrawStart(s) ==
    \E data \in DrawStartPayloads : HandleDrawStart(s, data) /\ UNCHANGED clients

(* socket.on('draw-move') *)
HandleDrawMove(s, data) ==
    /\ Connected(s)
    /\ LET user      == users[s]
             roomId    == GetRoomId(Registry, s)
             operation == DrawOperation(user, data.strokeId, data)
             ds        == AddOperation(rooms[roomId], operation)
         IN  /\ HasRoomState(Registry, roomId)
             /\ CanAdd
             /\ SetRoomState(roomId, ds)
             /\ emitted' = ToAll(SocketTo(ioRooms, s, roomId), "draw-move",
                                 [ op |-> operation ])
             /\ last' = Call("draw-move", s, user, roomId,
                             ds.operationIdCounter, Len(ds.operationHistory))
             /\ gesture' =
                  IF /\ gesture.socket = s
                     /\ gesture.room = roomId
                     /\ gesture.strokeId = data.strokeId
                  THEN [gesture EXCEPT !.points = Append(@, data.point)]
                  ELSE NoGesture
    /\ UNCHANGED <<users, ioRooms, userSeq>>

DrawMove(s) ==
    \E data \in DrawMovePayloads : HandleDrawMove(s, data) /\ UNCHANGED clients

(* socket.on('erase') *)
HandleErase(s, data) ==
    /\ Connected(s)
    /\ LET user      == users[s]
             roomId    == GetRoomId(Registry, s)
             operation == EraseOperation(user, data)
             ds        == AddOperation(rooms[roomId], operation)
         IN  /\ HasRoomState(Registry, roomId)
             /\ CanAdd
             /\ SetRoomState(roomId, ds)
             /\ emitted' = ToAll(SocketTo(ioRooms, s, roomId), "erase",
                                 [ op |-> operation ])
             /\ last' = Call("erase", s, user, roomId,
                             ds.operationIdCounter, Len(ds.operationHistory))
    /\ gesture' = NoGesture
    /\ UNCHANGED <<users, ioRooms, userSeq>>

Erase(s) ==
    \E data \in ErasePayloads : HandleErase(s, data) /\ UNCHANGED clients

(* socket.on('draw-end'): relays the stroke id, logs nothing *)
HandleDrawEnd(s, data) ==
    /\ Connected(s)
    /\ LET user   == users[s]
           roomId == GetRoomId(Registry, s)
       IN  /\ emitted' = ToAll(SocketTo(ioRooms, s, roomId), "draw-end",
                               [ userId |-> user, strokeId |-> data.strokeId ])
           /\ last' = Call("draw-end", s, user, roomId, None, 0)
    /\ gesture' = NoGesture
    /\ UNCHANGED <<rooms, socketToRoom, roomUsers, users, ioRooms, userSeq>>

DrawEnd(s) ==
    \E data \in DrawEndPayloads : HandleDrawEnd(s, data) /\ UNCHANGED clients

(* a cursor-move handler that logs the position as an operation of the
   room; the silence of the log must tell it from HandleCursorMove *)
HandleCursorMoveLogged(s, data) ==
    /\ Connected(s)
    /\ LET user   == users[s]
           roomId == GetRoomId(Registry, s)
       IN  /\ HasRoomState(Registry, roomId)
           /\ rooms' = [rooms EXCEPT ![roomId] =
                          AddOperation(@, MkOp("cursor", user, NoStroke, "", 0,
                                               <<data.x, data.y>>, 0))]
           /\ emitted' = ToAll(SocketTo(ioRooms, s, roomId), "cursor-move",
                               [ userId |-> user, x |-> data.x, y |-> data.y ])
           /\ last' = Call("cursor-move", s, user, roomId, None, 0)
    /\ gesture' = NoGesture
    /\ UNCHANGED <<socketToRoom, roomUsers, users, ioRooms, userSeq>>

(* socket.on('cursor-move'): relays the position, logs nothing *)
HandleCursorMove(s, data) ==
    /\ Connected(s)
    /\ LET user   == users[s]
           roomId == GetRoomId(Registry, s)
       IN  /\ emitted' = ToAll(SocketTo(ioRooms, s, roomId), "cursor-move",
                               [ userId |-> user, x |-> data.x, y |-> data.y ])
           /\ last' = Call("cursor-move", s, user, roomId, None, 0)
    /\ gesture' = NoGesture
    /\ UNCHANGED <<rooms, socketToRoom, roomUsers, users, ioRooms, userSeq>>

CursorMove(s) ==
    \E data \in CursorPayloads : HandleCursorMove(s, data) /\ UNCHANGED clients

(* the two full-state emissions of the undo and redo handlers *)
AttributedState(io, roomId, ds, event, userId, operationId) ==
    ToAll(IoTo(io, roomId), "canvas-state", [ strokes |-> GetState(ds) ])
    \o ToAll(IoTo(io, roomId), event,
             [ userId |-> userId, operationId |-> operationId ])

(* an undo handler that broadcasts whether or not undo() returned an
   operation; the silence of a no-op undo must tell it from HandleUndo *)
HandleUndoBroadcasting(s) ==
    /\ Connected(s)
    /\ LET user   == users[s]
           roomId == GetRoomId(Registry, s)
           i      == UndoIndex(rooms[roomId], user)
           ds     == Undo(rooms[roomId], user)
           ret    == IF i = 0 THEN None ELSE rooms[roomId].operationHistory[i].id
       IN  /\ HasRoomState(Registry, roomId)
           /\ SetRoomState(roomId, ds)
           /\ emitted' = AttributedState(ioRooms, roomId, ds, "undo", user, ret)
           /\ last' = Call("undo", s, user, roomId, ret, i)
    /\ gesture' = NoGesture
    /\ UNCHANGED <<users, ioRooms, userSeq>>

(* socket.on('undo') *)
HandleUndo(s) ==
    /\ Connected(s)
    /\ LET user   == users[s]
           roomId == GetRoomId(Registry, s)
           i      == UndoIndex(rooms[roomId], user)
           ds     == Undo(rooms[roomId], user)
           ret    == IF i = 0 THEN None ELSE rooms[roomId].operationHistory[i].id
       IN  /\ HasRoomState(Registry, roomId)
           /\ SetRoomState(roomId, ds)
           /\ emitted' = IF i # 0
                         THEN AttributedState(ioRooms, roomId, ds, "undo", user, ret)
                         ELSE <<>>
           /\ last' = Call("undo", s, user, roomId, ret, i)
    /\ gesture' = NoGesture
    /\ UNCHANGED <<users, ioRooms, userSeq>>

UndoMessage(s) == HandleUndo(s) /\ UNCHANGED clients

(* socket.on('redo') *)
HandleRedo(s) ==
    /\ Connected(s)
    /\ LET user   == users[s]
           roomId == GetRoomId(Registry, s)
           i      == RedoIndex(rooms[roomId], user)
           ds     == Redo(rooms[roomId], user)
           ret    == IF i = 0 THEN None ELSE rooms[roomId].operationHistory[i].id
       IN  /\ HasRoomState(Registry, roomId)
           /\ SetRoomState(roomId, ds)
           /\ emitted' = IF i # 0
                         THEN AttributedState(ioRooms, roomId, ds, "redo", user, ret)
                         ELSE <<>>
           /\ last' = Call("redo", s, user, roomId, ret, i)
    /\ gesture' = NoGesture
    /\ UNCHANGED <<users, ioRooms, userSeq>>

RedoMessage(s) == HandleRedo(s) /\ UNCHANGED clients

(* the log calls of the clear handler: addOperation, then clear() *)
ClearRoom(ds, userId) == Clear(AddOperation(ds, ClearOperation(userId)))

(* socket.on('clear') *)
HandleClear(s) ==
    /\ Connected(s)
    /\ LET user   == users[s]
           roomId == GetRoomId(Registry, s)
           ds     == ClearRoom(rooms[roomId], user)
       IN  /\ HasRoomState(Registry, roomId)
           /\ CanNumber
           /\ SetRoomState(roomId, ds)
           /\ emitted' = ToAll(IoTo(ioRooms, roomId), "clear", [ none |-> TRUE ])
                         \o ToAll(IoTo(ioRooms, roomId), "canvas-state",
                                  [ strokes |-> GetState(ds) ])
           /\ last' = Call("clear", s, user, roomId, ds.operationIdCounter, 0)
    /\ gesture' = NoGesture
    /\ UNCHANGED <<users, ioRooms, userSeq>>

ClearMessage(s) == HandleClear(s) /\ UNCHANGED clients

(* socket.leave(oldRoomId); socket.join(roomId) *)
SwitchIoRoom(joined, oldRoomId, roomId) == (joined \ {oldRoomId}) \cup {roomId}

(* socket.on('join-room') *)
HandleJoinRoom(s, roomId) ==
    /\ Connected(s)
    /\ LET oldRoomId == GetRoomId(Registry, s)
             rm        == JoinRoom(Registry, s, roomId)
             io        == [ioRooms EXCEPT ![s] = SwitchIoRoom(@, oldRoomId, roomId)]
         IN  /\ SetRegistry(rm)
             /\ ioRooms' = io
             /\ emitted' =
                  (IF HasRoomState(rm, roomId)
                   THEN <<Msg(s, "canvas-state",
                              [ strokes |-> GetState(rm.rooms[roomId]) ])>>
                   ELSE <<>>)
                  \o BroadcastUserList(rm, users, io, roomId)
                  \o BroadcastUserList(rm, users, io, oldRoomId)
             /\ last' = Call("join-room", s, users[s], roomId, None, 0)
    /\ gesture' = NoGesture
    /\ UNCHANGED <<users, userSeq>>

JoinRoomMessage(s) ==
    \E roomId \in RoomIds : HandleJoinRoom(s, roomId) /\ UNCHANGED clients

(* socket.on('save-canvas') *)
HandleSaveCanvas(s) ==
    /\ Connected(s)
    /\ LET roomId     == GetRoomId(Registry, s)
           savedState == ExportState(rooms[roomId])
       IN  /\ HasRoomState(Registry, roomId)
           /\ emitted' = <<Msg(s, "canvas-saved", savedState)>>
           /\ last' = Call("save-canvas", s, users[s], roomId, None, 0)
    /\ gesture' = NoGesture
    /\ UNCHANGED <<rooms, socketToRoom, roomUsers, users, ioRooms, userSeq>>

SaveCanvas(s) == HandleSaveCanvas(s) /\ UNCHANGED clients

(* roomManager.getAllRooms() and getRoomInfo(roomId) *)
GetAllRooms(registry) == DOMAIN registry.rooms

GetRoomInfo(registry, roomId) ==
    [ id          |-> roomId,
      userCount   |-> Cardinality(GetRoomUsers(registry, roomId)),
      strokeCount |-> Len(registry.rooms[roomId].strokes) ]

(* socket.on('get-rooms'): answers the sender with the info of every room *)
HandleGetRooms(s) ==
    /\ Connected(s)
    /\ emitted' = <<Msg(s, "rooms-list",
                        { GetRoomInfo(Registry, roomId) :
                            roomId \in GetAllRooms(Registry) })>>
    /\ last' = Call("get-rooms", s, users[s], GetRoomId(Registry, s), None, 0)
    /\ gesture' = NoGesture
    /\ UNCHANGED <<rooms, socketToRoom, roomUsers, users, ioRooms, userSeq>>

GetRooms(s) == HandleGetRooms(s) /\ UNCHANGED clients

Timestamps == {7}

(* socket.on('ping'): answers the sender with its timestamp *)
HandlePing(s, timestamp) ==
    /\ Connected(s)
    /\ emitted' = <<Msg(s, "pong", timestamp)>>
    /\ last' = Call("ping", s, users[s], GetRoomId(Registry, s), None, 0)
    /\ gesture' = NoGesture
    /\ UNCHANGED <<rooms, socketToRoom, roomUsers, users, ioRooms, userSeq>>

Ping(s) ==
    \E timestamp \in Timestamps : HandlePing(s, timestamp) /\ UNCHANGED clients

(* a load-canvas handler that imports first and logs the load afterwards; the
   equality of the loaded log with the snapshot must tell it from LoadRoom *)
LoadRoomLoggedLast(ds, userId, state) ==
    AddOperation(ImportState(ds, state), LoadOperation(userId))

(* the log calls of the load-canvas handler: addOperation, then importState *)
LoadRoom(ds, userId, state) ==
    ImportState(AddOperation(ds, LoadOperation(userId)), state)

(* socket.on('load-canvas') *)
HandleLoadCanvas(s, state) ==
    /\ Connected(s)
    /\ LET user   == users[s]
             roomId == GetRoomId(Registry, s)
             ds     == LoadRoom(rooms[roomId], user, state)
         IN  /\ HasRoomState(Registry, roomId)
             /\ CanNumber
             /\ SetRoomState(roomId, ds)
             /\ emitted' = ToAll(IoTo(ioRooms, roomId), "canvas-state",
                                 [ strokes |-> GetState(ds) ])
             /\ last' = Call("load-canvas", s, user, roomId,
                             ds.operationIdCounter, 0)
    /\ gesture' = NoGesture
    /\ UNCHANGED <<users, ioRooms, userSeq>>

LoadCanvas(s) ==
    \E state \in LoadPayloads : HandleLoadCanvas(s, state) /\ UNCHANGED clients

(* socket.on('disconnect'); socket.io drops the socket from its rooms *)
HandleDisconnect(s) ==
    /\ Connected(s)
    /\ LET roomId == GetRoomId(Registry, s)
           rm     == LeaveRoom(Registry, s)
           us     == [users EXCEPT ![s] = NoUser]
           io     == [ioRooms EXCEPT ![s] = {}]
       IN  /\ SetRegistry(rm)
           /\ users' = us
           /\ ioRooms' = io
           /\ emitted' = BroadcastUserList(rm, us, io, roomId)
           /\ last' = Call("disconnect", s, users[s], roomId, None, 0)
    /\ gesture' = NoGesture
    /\ UNCHANGED <<userSeq>>

Disconnect(s) == HandleDisconnect(s) /\ UNCHANGED clients

Next ==
    \E s \in Sockets :
        \/ Connect(s)
        \/ DrawStart(s)
        \/ DrawMove(s)
        \/ Erase(s)
        \/ UndoMessage(s)
        \/ RedoMessage(s)
        \/ ClearMessage(s)
        \/ JoinRoomMessage(s)
        \/ SaveCanvas(s)
        \/ LoadCanvas(s)
        \/ Disconnect(s)

Spec == Init /\ [][Next]_vars

(* the handlers that forward a message to the other sessions of the room,
   with the ones that change the membership *)
NextRelay ==
    \E s \in Sockets :
        \/ Connect(s)
        \/ JoinRoomMessage(s)
        \/ Disconnect(s)
        \/ DrawStart(s)
        \/ DrawMove(s)
        \/ DrawEnd(s)
        \/ Erase(s)
        \/ CursorMove(s)

SpecRelay == Init /\ [][NextRelay]_vars

(* the handlers that answer or forward without a call on the log, among the
   handlers that fill the rooms *)
NextQuiet ==
    \E s \in Sockets :
        \/ Connect(s)
        \/ JoinRoomMessage(s)
        \/ Disconnect(s)
        \/ DrawStart(s)
        \/ Erase(s)
        \/ DrawEnd(s)
        \/ CursorMove(s)
        \/ Ping(s)
        \/ GetRooms(s)
        \/ SaveCanvas(s)

SpecQuiet == Init /\ [][NextQuiet]_vars

-----------------------------------------------------------------------------
(* A page on its own: the calls main.js makes on its CanvasManager for the
   pointer and for the messages of the socket, with any content the server
   can put in them *)

(* ids of the strokes of a room: made by draw-start, or taken by draw-move
   from the payload of a page *)
ReceivedStrokeIds == { ServerStrokeId(DefaultRoomId, 1), ClientStrokeId(1, 0) }

ReceivedStrokes ==
    [ id : ReceivedStrokeIds, userId : {2}, tool : {"brush"},
      lineWidth : {DefaultLineWidth},
      points : { <<<<0, 0>>>>, <<<<0, 0>>, <<5, 5>>>> } ]

(* what getState() can hold: no two strokes with one id *)
ReceivedLists ==
    { <<>> } \cup { <<a>> : a \in ReceivedStrokes }
    \cup { <<p[1], p[2]>> :
             p \in { q \in ReceivedStrokes \X ReceivedStrokes :
                        q[1].id # q[2].id } }

(* what surrounds a page stays as it is *)
PageFrame(s, kind, msgs) ==
    /\ emitted' = msgs
    /\ last' = Call(kind, s, users[s], "", None, 0)
    /\ UNCHANGED <<rooms, socketToRoom, roomUsers, users, ioRooms, userSeq,
                   gesture>>

PageStartDrawing(s) ==
    /\ ~clients[s].isDrawing
    /\ clients[s].strokeSeq < MaxGestures
    /\ Len(clients[s].localStrokes) < MaxLocalStrokes
    /\ clients' = [clients EXCEPT ![s] =
                     StartDrawing(@, ClientStrokeId(s, @.strokeSeq), <<0, 0>>)]
    /\ PageFrame(s, "startDrawing", <<>>)

PageContinueDrawing(s) ==
    /\ clients[s].isDrawing
    /\ Len(clients[s].currentStroke.points) < MaxLocalPoints
    /\ clients' = [clients EXCEPT ![s] = ContinueDrawing(@, <<5, 5>>)]
    /\ PageFrame(s, "continueDrawing", <<>>)

PageEndDrawing(s) ==
    /\ clients[s].isDrawing
    /\ clients' = [clients EXCEPT ![s] = EndDrawing(@)]
    /\ PageFrame(s, "endDrawing", <<>>)

(* a message of the server arrives at the page *)
PageReceives(s, msg) == [clients EXCEPT ![s] = OnMessage(@, 1, msg)]

PageDrawStart(s) ==
    /\ Len(clients[s].localStrokes) < MaxLocalStrokes
    /\ \E id \in ReceivedStrokeIds :
         LET msg == Msg(s, "draw-start",
                        [ op |-> MkOp("draw", 2, id, "brush", DefaultLineWidth,
                                      <<0, 0>>, 0) ])
         IN  /\ clients' = PageReceives(s, msg)
             /\ PageFrame(s, "draw-start", <<msg>>)

PageDrawMove(s) ==
    \E id \in ReceivedStrokeIds :
       LET msg == Msg(s, "draw-move",
                      [ op |-> MkOp("draw", 2, id, "brush", DefaultLineWidth,
                                    <<5, 5>>, 0) ])
       IN  /\ \A i \in DOMAIN clients[s].localStrokes :
                clients[s].localStrokes[i].id = id =>
                Len(clients[s].localStrokes[i].points) < MaxLocalPoints
           /\ clients' = PageReceives(s, msg)
           /\ PageFrame(s, "draw-move", <<msg>>)

PageClear(s) ==
    LET msg == Msg(s, "clear", [ none |-> TRUE ])
    IN  /\ clients' = PageReceives(s, msg)
        /\ PageFrame(s, "clear", <<msg>>)

PageCanvasState(s) ==
    \E strokes \in ReceivedLists :
       LET msg == Msg(s, "canvas-state", [ strokes |-> strokes ])
       IN  /\ clients' = PageReceives(s, msg)
           /\ PageFrame(s, "canvas-state", <<msg>>)

NextCanvas ==
    \E s \in {1} :
       \/ PageStartDrawing(s)
       \/ PageContinueDrawing(s)
       \/ PageEndDrawing(s)
       \/ PageDrawStart(s)
       \/ PageDrawMove(s)
       \/ PageClear(s)
       \/ PageCanvasState(s)

SpecCanvas == Init /\ [][NextCanvas]_vars

-----------------------------------------------------------------------------
(* Pages and server together.  A step is one input at a page, with what the
   page does to its own strokes, what the server's handler does with the
   message the page emits, and what every page does with the messages the
   handler sends: each state is one where nothing is in flight. *)

(* every page handles the messages sent to it *)
Deliveries(cs) ==
    [ t \in Sockets |-> Deliver(cs[t], users'[t], t, emitted') ]

(* the payload startDrawing and continueDrawing emit *)
DrawPayload(strokeId, point) ==
    [ strokeId |-> strokeId, tool |-> "brush", lineWidth |-> DefaultLineWidth,
      point |-> point ]

SyncConnect(s) ==
    /\ HandleConnection(s)
    /\ clients' = Deliveries(clients)

SyncStartDrawing(s) ==
    /\ ~clients[s].isDrawing
    /\ clients[s].strokeSeq < MaxGestures
    /\ LET strokeId == ClientStrokeId(s, clients[s].strokeSeq)
       IN  /\ HandleDrawStart(s, DrawPayload(strokeId, <<0, 0>>))
           /\ clients' = Deliveries([clients EXCEPT ![s] =
                                        StartDrawing(@, strokeId, <<0, 0>>)])

(* continueDrawing: every point is drawn, one in PointThrottle is sent *)
SyncContinueDrawing(s) ==
    /\ Connected(s)
    /\ clients[s].isDrawing
    /\ Len(clients[s].currentStroke.points) < MaxLocalPoints
    /\ LET c == ContinueDrawing(clients[s], <<5, 5>>)
       IN  IF EmitsDrawMove(c)
           THEN /\ HandleDrawMove(s, DrawPayload(c.currentStroke.id, <<5, 5>>))
                /\ clients' = Deliveries([clients EXCEPT ![s] = c])
           ELSE /\ clients' = [clients EXCEPT ![s] = c]
                /\ emitted' = <<>>
                /\ last' = Call("continueDrawing", s, users[s],
                                GetRoomId(Registry, s), None, 0)
                /\ UNCHANGED <<rooms, socketToRoom, roomUsers, users, ioRooms,
                               userSeq, gesture>>

SyncEndDrawing(s) ==
    /\ clients[s].isDrawing
    /\ HandleDrawEnd(s, [ strokeId |-> clients[s].currentStroke.id ])
    /\ clients' = Deliveries([clients EXCEPT ![s] = EndDrawing(@)])

(* erase: the page paints over its pixels and keeps its strokes *)
SyncErase(s) ==
    /\ ~clients[s].isDrawing
    /\ \E data \in ErasePayloads : HandleErase(s, data)
    /\ clients' = Deliveries(clients)

SyncUndo(s) == HandleUndo(s) /\ clients' = Deliveries(clients)

SyncClear(s) == HandleClear(s) /\ clients' = Deliveries(clients)

(* the room form of the page sends a trimmed, non-empty name *)
SyncJoinRoom(s) ==
    /\ \E roomId \in RoomIds \ {""} : HandleJoinRoom(s, roomId)
    /\ clients' = Deliveries(clients)

(* the page is closed *)
SyncDisconnect(s) ==
    /\ HandleDisconnect(s)
    /\ clients' = Deliveries([clients EXCEPT ![s] = NewCanvasManager])

NextSync ==
    \E s \in Sockets :
       \/ SyncConnect(s)
       \/ SyncStartDrawing(s)
       \/ SyncContinueDrawing(s)
       \/ SyncEndDrawing(s)
       \/ SyncErase(s)
       \/ SyncUndo(s)
       \/ SyncClear(s)
       \/ SyncJoinRoom(s)
       \/ SyncDisconnect(s)

SpecSync == Init /\ [][NextSync]_vars

-----------------------------------------------------------------------------
(* Messages with a payload that is absent or lacks fields.  A handler that
   throws leaves the server as it is at the throw and sends nothing; nothing
   in server.js catches the exception, and what the host does with it lies
   outside the handlers, so the model lets the server go on. *)

Thrown(kind, s) ==
    /\ last' = [Call(kind, s, users[s], GetRoomId(Registry, s), None, 0)
                  EXCEPT !.threw = TRUE]
    /\ emitted' = <<>>
    /\ gesture' = NoGesture
    /\ UNCHANGED <<socketToRoom, roomUsers, users, ioRooms, userSeq, clients>>

(* draw-start and draw-move with {} or with no point: data.point is
   undefined *)
DrawWithoutPoint(s) ==
    \E data \in [ strokeId : { <<"c", 1>> }, tool : {""}, lineWidth : {0},
                  point : {NoPoint} ] :
       /\ \/ HandleDrawStart(s, data)
          \/ HandleDrawMove(s, data)
       /\ UNCHANGED clients

(* erase with {} or with no point: addOperation throws in applyOperation when
   a stroke has a point to compare *)
EraseWithoutPoint(s) ==
    LET data      == [ point |-> NoPoint, radius |-> 0 ]
        roomId    == GetRoomId(Registry, s)
        operation == EraseOperation(users[s], data)
    IN  /\ Connected(s)
        /\ HasRoomState(Registry, roomId)
        /\ IF AddOperationThrows(rooms[roomId], operation)
           THEN /\ CanNumber
                /\ rooms' = [rooms EXCEPT ![roomId] =
                               AddOperationThrown(@, operation)]
                /\ Thrown("erase", s)
           ELSE HandleErase(s, data) /\ UNCHANGED clients

(* draw-start, draw-move, draw-end, erase and cursor-move with no payload:
   the handler reads a property of undefined before it changes anything *)
AbsentPayload(s) ==
    /\ Connected(s)
    /\ HasRoomState(Registry, GetRoomId(Registry, s))
    /\ \E kind \in { "draw-start", "draw-move", "erase" } : Thrown(kind, s)
    /\ UNCHANGED rooms

(* load-canvas with no payload: addOperation logs the load, importState
   throws on state.strokes *)
LoadAbsent(s) ==
    LET roomId == GetRoomId(Registry, s)
    IN  /\ Connected(s)
        /\ HasRoomState(Registry, roomId)
        /\ CanNumber
        /\ rooms' = [rooms EXCEPT ![roomId] =
                       AddOperation(@, LoadOperation(users[s]))]
        /\ Thrown("load-canvas", s)

(* undo and redo on whatever log the messages above have left *)
UndoLater(s) ==
    LET roomId == GetRoomId(Registry, s)
    IN  /\ Connected(s)
        /\ HasRoomState(Registry, roomId)
        /\ IF UndoThrows(rooms[roomId], users[s])
           THEN /\ rooms' = [rooms EXCEPT ![roomId] =
                               RebuildStateThrown(UndoFlagged(@, users[s]))]
                /\ Thrown("undo", s)
           ELSE HandleUndo(s) /\ UNCHANGED clients

RedoLater(s) ==
    LET roomId == GetRoomId(Registry, s)
    IN  /\ Connected(s)
        /\ HasRoomState(Registry, roomId)
        /\ IF RedoThrows(rooms[roomId], users[s])
           THEN /\ rooms' = [rooms EXCEPT ![roomId] =
                               RebuildStateThrown(RedoFlagged(@, users[s]))]
                /\ Thrown("redo", s)
           ELSE HandleRedo(s) /\ UNCHANGED clients

NextMalformed ==
    \E s \in Sockets :
       \/ Connect(s)
       \/ DrawStart(s)
       \/ LoadCanvas(s)
       \/ DrawWithoutPoint(s)
       \/ EraseWithoutPoint(s)
       \/ AbsentPayload(s)
       \/ LoadAbsent(s)
       \/ UndoLater(s)
       \/ RedoLater(s)

SpecMalformed == Init /\ [][NextMalformed]_vars

-----------------------------------------------------------------------------
(* Messages with and without their numeric fields, sent while the page of
   another session is in the middle of a gesture, so that there is a stroke
   to erase from.  What the pages do with the relayed messages is as in
   SpecSync; sent keeps the payload. *)

PartialDraws ==
    [ strokeId : { <<"c", 9>> }, tool : {""}, lineWidth : {0, 3},
      point : { <<5, 5>> } ]

PartialErases == [ point : { <<3, 4>> }, radius : {0, 4} ]

Sent(s, data) == [clients EXCEPT ![s].sent = <<data>>]

PartialStartDrawing(s) ==
    /\ ~clients[s].isDrawing
    /\ clients[s].strokeSeq < MaxGestures
    /\ LET strokeId == ClientStrokeId(s, clients[s].strokeSeq)
           data     == DrawPayload(strokeId, <<0, 0>>)
       IN  /\ HandleDrawStart(s, data)
           /\ clients' = Deliveries([Sent(s, data) EXCEPT ![s] =
                                        StartDrawing(@, strokeId, <<0, 0>>)])

PartialDrawStart(s) ==
    \E data \in PartialDraws :
       /\ HandleDrawStart(s, data)
       /\ clients' = Deliveries(Sent(s, data))

PartialDrawMove(s) ==
    \E data \in PartialDraws :
       /\ HandleDrawMove(s, data)
       /\ clients' = Deliveries(Sent(s, data))

PartialErase(s) ==
    \E data \in PartialErases :
       /\ HandleErase(s, data)
       /\ clients' = Deliveries(Sent(s, data))

NextPartial ==
    \E s \in Sockets :
       \/ SyncConnect(s)
       \/ SyncJoinRoom(s)
       \/ PartialStartDrawing(s)
       \/ PartialDrawStart(s)
       \/ PartialDrawMove(s)
       \/ PartialErase(s)

SpecPartial == Init /\ [][NextPartial]_vars

(* roomManager.deleteRoom(roomId), a method no handler calls, called on the
   registry directly; the record keeps what it returned (ret) and the length
   of the log the room had (idx) *)
DeleteRoomCall ==
    /\ \E roomId \in RoomIds :
         /\ SetRegistry(DeleteRoom(Registry, roomId))
         /\ last' = [Call("deleteRoom", 0, NoUser, roomId, None,
                           IF roomId \in DOMAIN rooms
                           THEN Len(rooms[roomId].operationHistory) ELSE 0)
                      EXCEPT !.ret = CanDeleteRoom(Registry, roomId)]
    /\ emitted' = <<>>
    /\ gesture' = NoGesture
    /\ UNCHANGED <<users, ioRooms, userSeq, clients>>

(* the calls that reach the registry, and a draw so that the rooms have logs
   to lose *)
NextRegistry ==
    \/ \E s \in Sockets :
          \/ Connect(s)
          \/ JoinRoomMessage(s)
          \/ Disconnect(s)
          \/ DrawStart(s)
    \/ DeleteRoomCall

SpecRegistry == Init /\ [][NextRegistry]_vars

-----------------------------------------------------------------------------
(* The DrawingState of the default room driven through its methods directly,
   as a unit test of drawing-state.js does: any sequence of addOperation, undo
   and redo by any users (SpecLog), and with rebuildState and clear called
   directly as well (SpecRebuild). *)

LogUsers == {1, 2}

(* two strokes, one of them drawn with both tools; an erase that covers one
   point and one, of the default radius, that covers both *)
LogDraws ==
    { [ strokeId |-> <<"c", 1>>, tool |-> "brush", point |-> <<0, 0>> ],
      [ strokeId |-> <<"c", 1>>, tool |-> "brush", point |-> <<5, 5>> ],
      [ strokeId |-> <<"c", 2>>, tool |-> "eraser", point |-> <<5, 5>> ],
      [ strokeId |-> <<"c", 2>>, tool |-> "brush", point |-> <<0, 0>> ] }

LogErases ==
    { [ point |-> <<0, 0>>, radius |-> 5 ], [ point |-> <<5, 5>>, radius |-> 0 ] }

LogOperations ==
    { MkOp("draw", u, d.strokeId, d.tool, DefaultLineWidth, d.point, 0) :
        u \in LogUsers, d \in LogDraws }
    \cup { MkOp("erase", u, NoStroke, "", 0, e.point, e.radius) :
             u \in LogUsers, e \in LogErases }
    \cup { ClearOperation(u) : u \in LogUsers }

TheLog == rooms[DefaultRoomId]

LogFrame == UNCHANGED <<socketToRoom, roomUsers, users, ioRooms, userSeq,
                        emitted, gesture, clients>>

LogAdd ==
    /\ Len(TheLog.operationHistory) < MaxLogLen
    /\ TheLog.operationIdCounter < MaxOpId
    /\ \E operation \in LogOperations :
         LET ds == AddOperation(TheLog, operation)
         IN  /\ rooms' = [rooms EXCEPT ![DefaultRoomId] = ds]
             /\ last' = Call("addOperation", 0, operation.userId, DefaultRoomId,
                             ds.operationIdCounter, Len(ds.operationHistory))
    /\ LogFrame

LogUndo ==
    /\ \E userId \in LogUsers :
         LET i == UndoIndex(TheLog, userId)
         IN  /\ rooms' = [rooms EXCEPT ![DefaultRoomId] = Undo(TheLog, userId)]
             /\ last' = [Call("undo()", 0, userId, DefaultRoomId,
                              IF i = 0 THEN None
                              ELSE TheLog.operationHistory[i].id, i)
                          EXCEPT !.before = GetState(TheLog)]
    /\ LogFrame

LogRedo ==
    /\ \E userId \in LogUsers :
         LET i == RedoIndex(TheLog, userId)
         IN  /\ rooms' = [rooms EXCEPT ![DefaultRoomId] = Redo(TheLog, userId)]
             /\ last' = Call("redo()", 0, userId, DefaultRoomId,
                             IF i = 0 THEN None
                             ELSE TheLog.operationHistory[i].id, i)
    /\ LogFrame

LogRebuild ==
    /\ rooms' = [rooms EXCEPT ![DefaultRoomId] = RebuildState(TheLog)]
    /\ last' = Call("rebuildState()", 0, NoUser, DefaultRoomId, None, 0)
    /\ LogFrame

LogClear ==
    /\ rooms' = [rooms EXCEPT ![DefaultRoomId] = Clear(TheLog)]
    /\ last' = Call("clear()", 0, NoUser, DefaultRoomId, None, 0)
    /\ LogFrame

(* the calls the server makes on a log that it does not replace *)
NextLog == LogAdd \/ LogUndo \/ LogRedo

SpecLog == Init /\ [][NextLog]_vars

(* every method of the class that changes the log or the derived state *)
NextRebuild == LogAdd \/ LogUndo \/ LogRedo \/ LogRebuild \/ LogClear

SpecRebuild == Init /\ [][NextRebuild]_vars

-----------------------------------------------------------------------------
(* The log of the default room saved and loaded again: what the handlers of
   draw-start, draw-move, erase, undo, redo, clear, save-canvas and
   load-canvas call on the DrawingState, and importState called directly.
   The snapshot goes through a file of the page, as JSON: every field the
   model has survives that by value. *)

(* the page that saves and loads *)
Saver == 1

ReloadOperations ==
    { MkOp("draw", 1, <<"c", 1>>, "brush", DefaultLineWidth, <<0, 0>>, 0),
      MkOp("draw", 1, <<"c", 1>>, "brush", DefaultLineWidth, <<5, 5>>, 0),
      MkOp("draw", 2, <<"c", 2>>, "brush", DefaultLineWidth, <<0, 0>>, 0),
      MkOp("erase", 2, NoStroke, "", 0, <<0, 0>>, 5) }

ReloadAdd ==
    /\ Len(TheLog.operationHistory) < MaxReloadLen
    /\ TheLog.operationIdCounter < MaxOpId
    /\ \E operation \in ReloadOperations :
         LET ds == AddOperation(TheLog, operation)
         IN  /\ rooms' = [rooms EXCEPT ![DefaultRoomId] = ds]
             /\ last' = Call("addOperation", 0, operation.userId, DefaultRoomId,
                             ds.operationIdCounter, Len(ds.operationHistory))
    /\ LogFrame

ReloadClear ==
    /\ TheLog.operationIdCounter < MaxOpId
    /\ \E userId \in LogUsers :
         /\ rooms' = [rooms EXCEPT ![DefaultRoomId] = ClearRoom(TheLog, userId)]
         /\ last' = Call("clear", 0, userId, DefaultRoomId, None, 0)
    /\ LogFrame

(* save-canvas, and canvas-saved written to the file *)
ReloadSave ==
    /\ clients' = [clients EXCEPT ![Saver].file = <<ExportState(TheLog)>>]
    /\ last' = Call("save-canvas", Saver, NoUser, DefaultRoomId, None, 0)
    /\ UNCHANGED <<rooms, socketToRoom, roomUsers, users, ioRooms, userSeq,
                   emitted, gesture>>

(* load-canvas with the file *)
ReloadLoad ==
    /\ clients[Saver].file # <<>>
    /\ TheLog.operationIdCounter < MaxOpId
    /\ \E userId \in LogUsers :
         /\ rooms' = [rooms EXCEPT ![DefaultRoomId] =
                        LoadRoom(TheLog, userId, clients[Saver].file[1])]
         /\ last' = [Call("load-canvas", Saver, userId, DefaultRoomId, None, 0)
                      EXCEPT !.sinceImport = 1]
    /\ LogFrame

(* importState(X) with the file *)
ReloadImport ==
    /\ clients[Saver].file # <<>>
    /\ rooms' = [rooms EXCEPT ![DefaultRoomId] =
                   ImportState(TheLog, clients[Saver].file[1])]
    /\ last' = [Call("importState()", Saver, NoUser, DefaultRoomId, None, 0)
                 EXCEPT !.sinceImport = 1]
    /\ LogFrame

(* one more call since the load, counted up to the length a log can have *)
SinceImport ==
    IF last.sinceImport = 0 \/ last.sinceImport > MaxReloadLen
    THEN last.sinceImport
    ELSE last.sinceImport + 1

ReloadUndo ==
    /\ \E userId \in LogUsers :
         LET i == UndoIndex(TheLog, userId)
         IN  /\ rooms' = [rooms EXCEPT ![DefaultRoomId] = Undo(TheLog, userId)]
             /\ last' = [Call("undo()", 0, userId, DefaultRoomId,
                              IF i = 0 THEN None
                              ELSE TheLog.operationHistory[i].id, i)
                          EXCEPT !.before = GetState(TheLog),
                                 !.sinceImport = SinceImport]
    /\ LogFrame

ReloadRedo ==
    /\ \E userId \in LogUsers :
         LET i == RedoIndex(TheLog, userId)
         IN  /\ rooms' = [rooms EXCEPT ![DefaultRoomId] = Redo(TheLog, userId)]
             /\ last' = [Call("redo()", 0, userId, DefaultRoomId,
                              IF i = 0 THEN None
                              ELSE TheLog.operationHistory[i].id, i)
                          EXCEPT !.sinceImport = SinceImport]
    /\ LogFrame

NextReload ==
    \/ ReloadAdd
    \/ ReloadUndo
    \/ ReloadRedo
    \/ ReloadClear
    \/ ReloadSave
    \/ ReloadLoad
    \/ ReloadImport

SpecReload == Init /\ [][NextReload]_vars

-----------------------------------------------------------------------------
(* applyOperation on its own: an erase folded over any strokes the draws can
   have made, brush strokes and eraser strokes, with points inside, on and
   outside the circles erased *)

FoldPoints == { <<0, 0>>, <<3, 4>>, <<5, 5>> }

FoldPointSeqs ==
    UNION { [ 1..n -> FoldPoints ] : n \in 0..MaxFoldPoints }

FoldStroke(n, tool, points) ==
    [ id |-> <<"c", n>>, userId |-> 1, tool |-> tool,
      lineWidth |-> DefaultLineWidth, points |-> points ]

(* stroke lists with the ids c1, c2, .. in this order *)
FoldStrokeLists ==
    UNION { { [ i \in 1..n |-> FoldStroke(i, t[i], p[i]) ] :
                t \in [ 1..n -> {"brush", "eraser"} ],
                p \in [ 1..n -> FoldPointSeqs ] } :
            n \in 0..MaxFoldStrokes }

FoldErases ==
    { MkOp("erase", 2, NoStroke, "", 0, <<0, 0>>, r) : r \in {4, 5, 7, 8} }

InitFold ==
    /\ \E strokes \in FoldStrokeLists :
         rooms = [ r \in {DefaultRoomId} |->
                     [NewDrawingState EXCEPT !.strokes = strokes] ]
    /\ roomUsers = [ r \in {DefaultRoomId} |-> {} ]
    /\ socketToRoom = [ s \in Sockets |-> "" ]
    /\ users = [ s \in Sockets |-> NoUser ]
    /\ ioRooms = [ s \in Sockets |-> {} ]
    /\ userSeq = [ s \in Sockets |-> 0 ]
    /\ emitted = <<>>
    /\ last = Call("init", 0, NoUser, "", None, 0)
    /\ gesture = NoGesture
    /\ clients = [ s \in Sockets |-> NewCanvasManager ]

(* applyOperation(operation); the record keeps the operation (before) *)
FoldErase ==
    /\ \E operation \in FoldErases :
         /\ rooms' = [rooms EXCEPT ![DefaultRoomId].strokes =
                        ApplyOperation(@, operation)]
         /\ last' = [Call("applyOperation()", 0, operation.userId,
                          DefaultRoomId, None, 0)
                      EXCEPT !.before = <<operation>>]
    /\ LogFrame

SpecFold == InitFold /\ [][FoldErase]_vars

-----------------------------------------------------------------------------
(* Vocabulary of the properties *)

(* an entry with its three undo markers removed *)
Unmarked(op) == [op EXCEPT !.undone = FALSE, !.undoneBy = NoUser, !.undoneAt = FALSE]

Marked(op, userId) == [op EXCEPT !.undone = TRUE, !.undoneBy = userId, !.undoneAt = TRUE]

(* positions of the entries of userId that are not flagged undone *)
Unflagged(history, userId) ==
    { i \in DOMAIN history : history[i].userId = userId /\ ~history[i].undone }

(* the log with every point tagged by the id of the operation that carries
   it, so that a replay tells which operation each surviving point is from *)
Tagged(history) ==
    [ i \in DOMAIN history |->
        IF history[i].type = "draw" /\ history[i].point # NoPoint
        THEN [history[i] EXCEPT !.point = <<@[1], @[2], history[i].id>>]
        ELSE history[i] ]

(* ids of the draw operations whose point is in the replayed stroke set *)
Surviving(history) ==
    LET strokes == ReplayFrom(Tagged(history), 1, <<>>)
    IN  UNION { { strokes[i].points[k][3] : k \in DOMAIN strokes[i].points } :
                  i \in DOMAIN strokes }

(* the stroke of the derived state with this id, as a 0- or 1-element seq *)
StrokeWithId(strokes, strokeId) ==
    LET i == FindStroke(strokes, strokeId)
    IN  IF i = 0 THEN <<>> ELSE <<strokes[i]>>

(* the points of the entries at positions I of the log, in log order *)
RECURSIVE PointsAt(_, _)
PointsAt(history, I) ==
    IF I = {} THEN <<>>
    ELSE LET i == CHOOSE m \in I : \A o \in I : m <= o
         IN  <<history[i].point>> \o PointsAt(history, I \ {i})

-----------------------------------------------------------------------------
(* Properties of the operation log, checked under SpecLog *)

(* C1: undo(U) returns none if and only if the log holds no operation of U
   that is not flagged undone; otherwise it flags exactly the unflagged
   operation of U with the highest log position (undone, undoneBy = U) and
   returns it. *)
C1_UndoFlagsMostRecent ==
    [][ last'.kind = "undo()" =>
          LET h    == TheLog.operationHistory
              U    == last'.user
              cand == Unflagged(h, U)
          IN  /\ (last'.ret = None) <=> (cand = {})
              /\ cand # {} =>
                   /\ last'.idx = Highest(cand)
                   /\ last'.ret = h[Highest(cand)].id
                   /\ TheLog'.operationHistory =
                        [h EXCEPT ![Highest(cand)] = Marked(@, U)] ]_vars

(* C2: undo(U) and redo(U) never change the length of the log, the order of
   its entries or any field of an entry other than the undo markers of the
   one operation they return; when they return none the log is unchanged. *)
C2_UndoRedoOnlyFlag ==
    [][ last'.kind \in {"undo()", "redo()"} =>
          LET h  == TheLog.operationHistory
              h2 == TheLog'.operationHistory
          IN  /\ Len(h2) = Len(h)
              /\ last'.idx = 0 => h2 = h
              /\ \A j \in DOMAIN h :
                   IF j = last'.idx THEN Unmarked(h2[j]) = Unmarked(h[j])
                   ELSE h2[j] = h[j] ]_vars

(* C2 witness: a redo has just cleared the markers of an entry of a log that
   holds another entry as well *)
C2_Witness ==
    /\ last.kind = "redo()"
    /\ last.idx # 0
    /\ Len(TheLog.operationHistory) >= 2
    /\ ~TheLog.operationHistory[last.idx].undone

(* C5: selective undo under interleaving: in a log that holds operations of
   users A and B, undo(A) flags only an operation whose userId is A, and at
   most one; every point of an unflagged draw operation of another user that
   was in the derived state before the undo is still in it afterwards, as are
   the points of the other unflagged draw operations of A. *)
C5_SelectiveUndo ==
    [][ ( /\ last'.kind = "undo()"
          /\ \E i, j \in DOMAIN TheLog.operationHistory :
               /\ TheLog.operationHistory[i].userId = last'.user
               /\ TheLog.operationHistory[j].userId # last'.user ) =>
          LET h  == TheLog.operationHistory
              h2 == TheLog'.operationHistory
              A  == last'.user
          IN  /\ Len(h2) = Len(h)
              /\ \A j \in DOMAIN h :
                   h2[j] # h[j] =>
                     /\ h[j].userId = A
                     /\ ~h[j].undone
                     /\ h2[j] = Marked(h[j], A)
                     /\ j = last'.idx
              /\ \A j \in DOMAIN h :
                   ( /\ h[j].type = "draw"
                     /\ ~h2[j].undone
                     /\ h[j].id \in Surviving(h) ) =>
                   h[j].id \in Surviving(h2) ]_vars

(* C6: undo works at point granularity: when a stroke was built from k >= 2
   draw operations of U sharing one strokeId, with no later operation of U,
   one undo(U) leaves the stroke in the derived state with exactly its first
   k - 1 points in the same order. *)
C6_UndoRemovesLastPoint ==
    [][ last'.kind = "undo()" =>
          LET h == TheLog.operationHistory
              U == last'.user
          IN  \A sid \in { h[i].strokeId : i \in DOMAIN h } :
                LET I == { i \in DOMAIN h :
                             h[i].type = "draw" /\ h[i].strokeId = sid }
                IN  ( /\ Cardinality(I) >= 2
                      /\ \A i \in I : h[i].userId = U /\ ~h[i].undone
                      /\ \A j \in DOMAIN h :
                           h[j].userId = U => j <= Highest(I)
                      /\ StrokeWithId(TheLog.strokes, sid) # <<>>
                      /\ StrokeWithId(TheLog.strokes, sid)[1].points = PointsAt(h, I) )
                    =>
                    ( /\ StrokeWithId(TheLog'.strokes, sid) # <<>>
                      /\ StrokeWithId(TheLog'.strokes, sid)[1].points =
                           PointsAt(h, I \ {Highest(I)}) ) ]_vars

(* C7: undo/redo inverse: in a log where U has at least one operation and no
   operation is flagged undone, undo(U) followed immediately by redo(U)
   returns the same operation both times and restores the derived stroke set
   of before the undo, with every entry's undo markers absent again. *)
C7_UndoThenRedo ==
    [][ ( /\ last.kind = "undo()"
          /\ last'.kind = "redo()"
          /\ last'.user = last.user
          /\ \E i \in DOMAIN TheLog.operationHistory :
               TheLog.operationHistory[i].userId = last.user
          /\ \A i \in DOMAIN TheLog.operationHistory :
               TheLog.operationHistory[i].undone => i = last.idx ) =>
          ( /\ last.ret # None
            /\ last'.ret = last.ret
            /\ last'.idx = last.idx
            /\ TheLog'.strokes = last.before
            /\ \A i \in DOMAIN TheLog'.operationHistory :
                 TheLog'.operationHistory[i] = Unmarked(TheLog'.operationHistory[i]) ) ]_vars

(* C8: idempotent rebuild: right after a rebuildState, whatever the log holds
   (draw, erase and clear entries, some of them flagged undone), a second
   rebuildState yields the same derived stroke set as the first. *)
C8_RebuildIdempotent ==
    last.kind = "rebuildState()" =>
        GetState(RebuildState(TheLog)) = GetState(TheLog)

(* C8 witness: a rebuild of a log that holds a flagged entry and an erase that
   is not flagged, and that leaves strokes in the derived state *)
C8_Witness ==
    /\ last.kind = "rebuildState()"
    /\ \E i \in DOMAIN TheLog.operationHistory : TheLog.operationHistory[i].undone
    /\ \E i \in DOMAIN TheLog.operationHistory :
         /\ TheLog.operationHistory[i].type = "erase"
         /\ ~TheLog.operationHistory[i].undone
    /\ GetState(TheLog) # <<>>

-----------------------------------------------------------------------------
(* Properties of the message handlers, checked under Spec *)

(* C3: handling a clear message from a session in room R appends one
   operation of type clear to the log of R while keeping every entry the log
   held before, and leaves the derived stroke set of R empty. *)
C3_ClearAppends ==
    [][ last'.kind = "clear" =>
          LET h  == rooms[last'.room].operationHistory
              h2 == rooms'[last'.room].operationHistory
          IN  /\ Len(h2) = Len(h) + 1
              /\ SubSeq(h2, 1, Len(h)) = h
              /\ h2[Len(h2)].type = "clear"
              /\ h2[Len(h2)].userId = last'.user
              /\ GetState(rooms'[last'.room]) = <<>> ]_vars

(* C4: after a draw-start with strokeId s and point p0 followed by draw-move
   messages with the same strokeId and points p1..pn and nothing else, the
   getState() of the room holds exactly one stroke for the gesture, with id s
   and points p0, p1, ..., pn in arrival order. *)
C4_OneStrokePerGesture ==
    gesture # NoGesture =>
        LET strokes == GetState(rooms[gesture.room])
            mine    == { i \in DOMAIN strokes :
                           \/ strokes[i].id = gesture.strokeId
                           \/ \E k \in DOMAIN strokes[i].points :
                                \E n \in DOMAIN gesture.points :
                                  /\ strokes[i].userId = users[gesture.socket]
                                  /\ strokes[i].points[k] = gesture.points[n] }
        IN  /\ Cardinality(mine) = 1
            /\ \A i \in mine :
                 /\ strokes[i].id = gesture.strokeId
                 /\ strokes[i].points = gesture.points

(* C9: room isolation: a draw-start, draw-move, erase, undo, redo, clear or
   load-canvas handled for a session whose current room is x changes neither
   the log nor the derived state of any other room y. *)
C9_RoomIsolation ==
    [][ last'.kind \in { "draw-start", "draw-move", "erase", "undo", "redo",
                         "clear", "load-canvas" } =>
          LET x == socketToRoom[last'.socket]
          IN  \A y \in DOMAIN rooms :
                y # x => /\ y \in DOMAIN rooms'
                         /\ rooms'[y] = rooms[y] ]_vars

(* C10: full-state broadcast: whenever an undo, redo, clear or load-canvas of
   a session in room R is applied, a canvas-state message carrying the
   getState() of R after the operation is sent to every session of the
   membership set of R, the originator included, whether the session became a
   member at connect or by join-room. *)
C10_FullStateBroadcast ==
    ( \/ last.kind \in {"clear", "load-canvas"}
      \/ last.kind \in {"undo", "redo"} /\ last.ret # None ) =>
        \A m \in GetRoomUsers(Registry, last.room) :
           \E k \in DOMAIN emitted :
              /\ emitted[k].to = m
              /\ emitted[k].event = "canvas-state"
              /\ emitted[k].payload = [ strokes |-> GetState(rooms[last.room]) ]

(* the operations of the log undo(userId) may flag, and those redo(userId)
   may clear, by the contract of the log *)
Redoable(history, userId) ==
    { i \in DOMAIN history : /\ history[i].userId = userId
                             /\ history[i].undone
                             /\ history[i].undoneBy = userId }

(* C12: an undo or redo message with nothing eligible returns none, produces
   no canvas-state and no undo/redo broadcast to any session and leaves the
   log and the derived state of the room unchanged. *)
C12_NoOpUndoRedo ==
    [][ last'.kind \in {"undo", "redo"} =>
          LET h        == rooms[last'.room].operationHistory
              eligible == IF last'.kind = "undo"
                          THEN Unflagged(h, last'.user)
                          ELSE Redoable(h, last'.user)
          IN  /\ eligible = {} => last'.ret = None
              /\ last'.ret = None => /\ emitted' = <<>>
                                     /\ rooms' = rooms ]_vars

(* C12 witness: an undo that returned none in a room whose log holds an
   operation and that another session would have heard a broadcast in *)
C12_Witness ==
    /\ last.kind = "undo"
    /\ last.ret = None
    /\ emitted = <<>>
    /\ rooms[last.room].operationHistory # <<>>
    /\ \E m \in Sockets \ {last.socket} : last.room \in ioRooms[m]

(* C15: on connect the new session gets a fresh user identity, is added to
   the membership set of the default room, and is sent user-info first and
   then a canvas-state carrying the current getState() of the default room,
   before any other message is handled. *)
C15_ConnectDelivers ==
    last.kind = "connection" =>
        LET s == last.socket
        IN  /\ users[s] # NoUser
            /\ \A t \in Sockets \ {s} : users[t] # users[s]
            /\ s \in GetRoomUsers(Registry, DefaultRoomId)
            /\ socketToRoom[s] = DefaultRoomId
            /\ Len(emitted) >= 2
            /\ emitted[1] = Msg(s, "user-info", [ userId |-> users[s] ])
            /\ emitted[2] = Msg(s, "canvas-state",
                                [ strokes |-> GetState(rooms[DefaultRoomId]) ])

(* C15 witness: a session has just connected while another one is connected
   and the default room holds a stroke *)
C15_Witness ==
    /\ last.kind = "connection"
    /\ GetState(rooms[DefaultRoomId]) # <<>>
    /\ \E t \in Sockets \ {last.socket} : users[t] # NoUser

(* the sessions the handler that ran last sent this event to *)
Notified(event) == { emitted[k].to : k \in { j \in DOMAIN emitted :
                                               emitted[j].event = event } }

(* C16: handling join-room(r2) for a session in room r1: afterwards the
   session is in the membership set of r2 and of no other room, r2 exists with
   its own log (empty if it was created, unchanged otherwise), the
   canvas-state carrying the getState() of r2 is sent to the moving session
   only, and users-list notifications are sent for r1 and for r2. *)
C16_JoinRoomMoves ==
    [][ last'.kind = "join-room" =>
          LET s  == last'.socket
              r1 == socketToRoom[s]
              r2 == last'.room
          IN  /\ r2 \in DOMAIN roomUsers' /\ s \in roomUsers'[r2]
              /\ \A r \in DOMAIN roomUsers' : r # r2 => s \notin roomUsers'[r]
              /\ r2 \in DOMAIN rooms'
              /\ rooms'[r2] = IF r2 \in DOMAIN rooms THEN rooms[r2]
                              ELSE NewDrawingState
              /\ \A k \in DOMAIN emitted' :
                   emitted'[k].event = "canvas-state" =>
                     emitted'[k] = Msg(s, "canvas-state",
                                       [ strokes |-> GetState(rooms'[r2]) ])
              /\ \E k \in DOMAIN emitted' : emitted'[k].event = "canvas-state"
              /\ \A R \in {r1, r2} :
                   \A m \in roomUsers'[R] :
                     \E k \in DOMAIN emitted' : /\ emitted'[k].event = "users-list"
                                                /\ emitted'[k].to = m ]_vars

(* C19: on disconnect of a session in room R, also between a draw-start and
   its draw-end, the session is removed from the membership set of R and from
   the session table, a users-list notification is sent for R, and the log and
   the derived state of R are unchanged: what the session logged stays. *)
C19_DisconnectLeaves ==
    [][ last'.kind = "disconnect" =>
          LET s == last'.socket
              R == socketToRoom[s]
          IN  /\ s \notin GetRoomUsers(Registry', R)
              /\ socketToRoom'[s] = ""
              /\ users'[s] = NoUser
              /\ \A m \in GetRoomUsers(Registry', R) :
                   \E k \in DOMAIN emitted' : /\ emitted'[k].event = "users-list"
                                              /\ emitted'[k].to = m
              /\ rooms' = rooms ]_vars

-----------------------------------------------------------------------------
(* Properties of the forwarding handlers, checked under SpecRelay *)

(* the sessions the handler that ran last sent its own event to *)
Forwarded == { emitted[k].to : k \in { j \in DOMAIN emitted :
                                         emitted[j].event = last.kind } }

(* C11: incremental broadcast: a draw-start, draw-move, draw-end, erase or
   cursor-move of a session in room R is forwarded to every other session of
   the membership set of R, never back to the originator and never to a
   session whose current room is not R. *)
C11_IncrementalBroadcast ==
    last.kind \in {"draw-start", "draw-move", "draw-end", "erase", "cursor-move"} =>
        LET R == socketToRoom[last.socket]
        IN  /\ \A m \in GetRoomUsers(Registry, R) \ {last.socket} : m \in Forwarded
            /\ last.socket \notin Forwarded
            /\ \A m \in Forwarded : socketToRoom[m] = R

-----------------------------------------------------------------------------
(* Properties of the registry, checked under SpecRegistry *)

(* the registry without one room *)
Without(f, roomId) == [ r \in DOMAIN f \ {roomId} |-> f[r] ]

(* C17: deleteRoom(r) returns failure and changes nothing (rooms, logs,
   membership) when r is the default room or the membership set of r is not
   empty; when r is another room with an empty membership set it removes r
   and its log and returns success. *)
C17_DeleteRoom ==
    [][ last'.kind = "deleteRoom" =>
          LET r == last'.room
          IN  IF r = DefaultRoomId \/ GetRoomUsers(Registry, r) # {}
              THEN /\ last'.ret = FALSE
                   /\ UNCHANGED <<rooms, roomUsers, socketToRoom>>
              ELSE r \in DOMAIN rooms =>
                   /\ last'.ret = TRUE
                   /\ rooms' = Without(rooms, r)
                   /\ roomUsers' = Without(roomUsers, r)
                   /\ UNCHANGED socketToRoom ]_vars

(* C17 witness: a room with no member and a log of at least one operation has
   just been deleted *)
C17_Witness ==
    /\ last.kind = "deleteRoom"
    /\ last.ret = TRUE
    /\ last.room \notin DOMAIN rooms
    /\ last.idx > 0

(* C18: in every reachable state of the registry, after any connect,
   join-room, disconnect and deleteRoom with any room ids, a room with id
   default exists and has an operation log. *)
C18_DefaultRoomExists ==
    /\ DefaultRoomId \in DOMAIN rooms
    /\ DefaultRoomId \in DOMAIN roomUsers
    /\ "operationHistory" \in DOMAIN rooms[DefaultRoomId]
    /\ Len(rooms[DefaultRoomId].operationHistory) >= 0

(* C18 witness: deleteRoom has just been called on the default room while it
   had no member *)
C18_Witness ==
    /\ last.kind = "deleteRoom"
    /\ last.room = DefaultRoomId
    /\ GetRoomUsers(Registry, DefaultRoomId) = {}
    /\ \E s \in Sockets : Connected(s)

-----------------------------------------------------------------------------
(* Properties of the page, checked under SpecCanvas *)

(* the received list as the page keeps it *)
Received(strokes) == [ i \in DOMAIN strokes |-> IdAndPoints(strokes[i]) ]

(* C14: when a page receives canvas-state it replaces its local strokes
   unconditionally: right afterwards its local strokes are exactly the
   received list, stroke for stroke, whatever it held before from its own
   drawing or from earlier draw-start and draw-move messages. *)
C14_CanvasStateReplaces ==
    [][ last'.kind = "canvas-state" =>
          clients'[last'.socket].localStrokes
            = Received(emitted'[1].payload.strokes) ]_vars

(* C14 witness: canvas-state has just arrived in the middle of a gesture, and
   the stroke of the gesture is not among the received ones *)
C14_Witness ==
    /\ last.kind = "canvas-state"
    /\ clients[last.socket].isDrawing
    /\ clients[last.socket].localStrokes # <<>>
    /\ FindStroke(clients[last.socket].localStrokes,
                  clients[last.socket].currentStroke.id) = 0
    /\ Len(clients[last.socket].currentStroke.points) > 1

-----------------------------------------------------------------------------
(* Properties of pages and server together, checked under SpecSync *)

StrokeSet(strokes) == { IdAndPoints(strokes[i]) : i \in DOMAIN strokes }

(* C13: whenever nothing is in flight, for every room R and every session in
   the membership set of R, the strokes the session's page holds, as ids with
   their point sequences, are those of getState() of R on the server. *)
C13_PagesMatchServer ==
    \A R \in DOMAIN rooms :
       \A s \in GetRoomUsers(Registry, R) :
          StrokeSet(clients[s].localStrokes) = StrokeSet(GetState(rooms[R]))

-----------------------------------------------------------------------------
(* Properties of the handling of malformed messages, checked under
   SpecMalformed *)

(* C20: whatever message arrives with its payload absent or short of fields
   (an erase, draw-start or draw-move without a point, a load-canvas without
   strokes or operationHistory), the handler ends without an exception, and
   so does every undo and redo that comes later in the room. *)
C20_NothingThrows == ~last.threw

-----------------------------------------------------------------------------
(* Properties of saving and loading, checked under SpecReload *)

TheFile == clients[Saver].file[1]

(* C21: when X is the snapshot exportState produced in the room at some
   moment, then after any later draw, erase, undo, redo and clear in the room,
   handling load-canvas with X makes getState() the stroke set of the moment
   of the export and getHistory() the log of that moment. *)
C21_SaveLoadRoundTrip ==
    [][ last'.kind = "load-canvas" =>
          /\ GetState(TheLog') = TheFile.strokes
          /\ GetHistory(TheLog') = TheFile.operationHistory ]_vars

(* C21 witness: a snapshot with a drawn stroke and a flagged entry has just
   been loaded *)
C21_Witness ==
    /\ last.kind = "load-canvas"
    /\ GetState(TheLog) = TheFile.strokes
    /\ GetState(TheLog) # <<>>
    /\ \E i \in DOMAIN TheLog.operationHistory : TheLog.operationHistory[i].undone

(* C22: importState(X) replaces the log and the derived state by those of X
   and builds the per-user index anew: for each user U it holds exactly the
   ids of the entries of X's log with userId U that are not flagged undone.
   So the first undo(U) after the import flags the unflagged operation of U
   that is highest in the imported log, and never an entry that was flagged
   already. *)
C22_ImportRebuildsIndex ==
    [][ /\ last'.kind = "importState()" =>
             LET h == TheFile.operationHistory
             IN  /\ GetHistory(TheLog') = h
                 /\ GetState(TheLog') = TheFile.strokes
                 /\ \A U \in LogUsers :
                      /\ SeqToSet(UserOps(TheLog', U))
                           = { h[i].id : i \in Unflagged(h, U) }
                      /\ Len(UserOps(TheLog', U)) = Cardinality(Unflagged(h, U))
        /\ (last.kind = "importState()" /\ last'.kind = "undo()") =>
             LET h    == TheLog.operationHistory
                 U    == last'.user
                 cand == Unflagged(h, U)
             IN  /\ (last'.ret = None) <=> (cand = {})
                 /\ cand # {} =>
                      /\ last'.idx = Highest(cand)
                      /\ ~h[last'.idx].undone
                      /\ TheLog'.operationHistory =
                           [h EXCEPT ![Highest(cand)] = Marked(@, U)] ]_vars

(* C22 witness: a snapshot has just been imported whose log holds, for one
   user, an entry flagged undone below an entry that is not, and the index of
   that user holds one id *)
C22_Witness ==
    /\ last.kind = "importState()"
    /\ \E U \in LogUsers :
         /\ Len(UserOps(TheLog, U)) = 1
         /\ \E i, j \in DOMAIN TheLog.operationHistory :
              /\ i < j
              /\ TheLog.operationHistory[i].userId = U
              /\ TheLog.operationHistory[i].undone
              /\ TheLog.operationHistory[j].userId = U
              /\ ~TheLog.operationHistory[j].undone

(* C23: after importState of a snapshot whose log holds an operation flagged
   undone by user U, redo(U) clears the markers of that operation and its
   effect is back in the derived state; and for every user with unflagged
   operations in the imported log, undo called again and again flags them one
   by one, from the most recent to the oldest. *)
C23_UndoRedoSurviveReload ==
    [][ last.sinceImport > 0 =>
          LET h == TheLog.operationHistory
              U == last'.user
          IN  /\ (last'.kind = "redo()" /\ Redoable(h, U) # {}) =>
                   /\ last'.idx = Highest(Redoable(h, U))
                   /\ TheLog'.operationHistory =
                        [h EXCEPT ![last'.idx] = Unmarked(@)]
                   /\ GetState(TheLog')
                        = ReplayFrom(TheLog'.operationHistory, 1, <<>>)
              /\ (last'.kind = "undo()" /\ Unflagged(h, U) # {}) =>
                   /\ last'.idx = Highest(Unflagged(h, U))
                   /\ TheLog'.operationHistory =
                        [h EXCEPT ![last'.idx] = Marked(@, U)] ]_vars

-----------------------------------------------------------------------------
(* Properties of the order of arrival, checked under SpecSync *)

(* the type of the entry a message is logged as *)
LoggedType(kind) == IF kind = "erase" THEN "erase" ELSE "draw"

(* C24: whatever the interleaving of draw-start, draw-move and erase messages
   of the sessions, each message handled makes exactly one log entry, put at
   the end of the log of the room the server takes the sender to be in; the
   entries before it stay as they are and in their order, and no other log
   changes. *)
C24_ArrivalOrder ==
    [][ last'.kind \in {"draw-start", "draw-move", "erase"} =>
          LET R == last'.room
              h == rooms[R].operationHistory
              g == rooms'[R].operationHistory
          IN  /\ Len(g) = Len(h) + 1
              /\ SubSeq(g, 1, Len(h)) = h
              /\ g[Len(g)].userId = last'.user
              /\ g[Len(g)].type = LoggedType(last'.kind)
              /\ g[Len(g)].id = last'.ret
              /\ \A r \in DOMAIN rooms \ {R} : rooms'[r] = rooms[r] ]_vars

(* C24 witness: a message of one session has just been logged behind a
   message of another session *)
C24_Witness ==
    /\ last.kind \in {"draw-move", "erase"}
    /\ Len(rooms[last.room].operationHistory) = 2
    /\ rooms[last.room].operationHistory[1].userId # last.user
    /\ rooms[last.room].operationHistory[2].userId = last.user

-----------------------------------------------------------------------------
(* Properties of the fold of an erase, checked under SpecFold *)

(* Euclidean distance of the two points <= r, on integer coordinates *)
Within(point, p, r) ==
    /\ r >= 0
    /\ (point[1] - p[1]) * (point[1] - p[1])
         + (point[2] - p[2]) * (point[2] - p[2]) <= r * r

(* the points of a sequence that are not within r of p, in their order *)
RECURSIVE Beyond(_, _, _)
Beyond(points, p, r) ==
    IF points = <<>> THEN <<>>
    ELSE IF Within(Head(points), p, r) THEN Beyond(Tail(points), p, r)
    ELSE <<Head(points)>> \o Beyond(Tail(points), p, r)

(* C25: folding an erase with point p and radius r removes from every stroke
   whose tool is not eraser exactly the points at distance <= r from p and
   keeps those at distance > r in their order; strokes whose tool is eraser
   stay as they are; a stroke leaves the derived set if and only if all its
   points were removed. *)
C25_EraseFold ==
    [][ last'.kind = "applyOperation()" =>
          LET S     == TheLog.strokes
              T     == TheLog'.strokes
              p     == last'.before[1].point
              r     == last'.before[1].radius
              kept  == [ i \in DOMAIN S |->
                           IF S[i].tool = "eraser" THEN S[i].points
                           ELSE Beyond(S[i].points, p, r) ]
              alive == { i \in DOMAIN S :
                           S[i].tool = "eraser" \/ kept[i] # <<>> }
          IN  /\ Len(T) = Cardinality(alive)
              /\ \A i \in alive :
                   T[Cardinality({ j \in alive : j <= i })]
                     = [S[i] EXCEPT !.points = kept[i]] ]_vars

(* C25 witness: an erase of radius 5 has just removed the first stroke whole
   and left the second, an eraser stroke with a point on the circle, as it
   was *)
C25_Witness ==
    /\ last.kind = "applyOperation()"
    /\ last.before[1].radius = 5
    /\ Len(TheLog.strokes) = 1
    /\ TheLog.strokes[1].tool = "eraser"
    /\ TheLog.strokes[1].id = <<"c", 2>>
    /\ TheLog.strokes[1].points = << <<3, 4>>, <<5, 5>> >>

-----------------------------------------------------------------------------
(* Properties of the defaults, checked under SpecPartial *)

(* the payload of the message handled last *)
TheSent == clients[last.socket].sent[1]

(* C26: a draw-start or draw-move message without lineWidth is logged with
   lineWidth 5, and an erase message without radius is logged and folded with
   radius 20; in both cases the operation is appended to the log and sent on
   to the other sessions of the room as any other operation is. *)
C26_DefaultsApplied ==
    [][ last'.kind \in {"draw-start", "draw-move", "erase"} =>
          LET s     == last'.socket
              R     == last'.room
              data  == clients'[s].sent[1]
              h     == rooms[R].operationHistory
              g     == rooms'[R].operationHistory
              entry == g[Len(g)]
          IN  /\ Len(g) = Len(h) + 1
              /\ { emitted'[k].to : k \in DOMAIN emitted' }
                   = SocketTo(ioRooms, s, R)
              /\ \A k \in DOMAIN emitted' :
                   /\ emitted'[k].event = last'.kind
                   /\ emitted'[k].payload.op.lineWidth = entry.lineWidth
                   /\ emitted'[k].payload.op.radius = entry.radius
                   /\ emitted'[k].payload.op.point = data.point
              /\ last'.kind # "erase" =>
                   entry.lineWidth = IF data.lineWidth = 0 THEN 5
                                     ELSE data.lineWidth
              /\ last'.kind = "erase" =>
                   /\ entry.radius = IF data.radius = 0 THEN 20 ELSE data.radius
                   /\ rooms'[R].strokes
                        = EraseStrokes(rooms[R].strokes, data.point,
                                       IF data.radius = 0 THEN 20
                                       ELSE data.radius) ]_vars

(* C26 witness: an erase without radius has just been logged with radius 20,
   has removed a point that lies further than the page's radius 4 from it,
   and has been sent on to the other session *)
C26_Witness ==
    /\ last.kind = "erase"
    /\ TheSent.radius = 0
    /\ Len(rooms[last.room].operationHistory) = 2
    /\ rooms[last.room].operationHistory[2].radius = 20
    /\ rooms[last.room].operationHistory[1].point = <<0, 0>>
    /\ rooms[last.room].strokes = <<>>
    /\ emitted # <<>>

-----------------------------------------------------------------------------
(* Properties of addOperation, undo of an erase and redo *)

(* C27: in every reachable state, after any number of undo and redo calls,
   addOperation appends exactly one new entry at the end of the log and
   returns its id; every entry that was in the log is still there, at its
   position and as it was. *)
C27_AddOnlyAppends ==
    [][ last'.kind = "addOperation" =>
          LET h == TheLog.operationHistory
              g == TheLog'.operationHistory
          IN  /\ Len(g) = Len(h) + 1
              /\ SubSeq(g, 1, Len(h)) = h
              /\ g[Len(g)].id = last'.ret
              /\ \A i \in DOMAIN h : h[i].id # last'.ret ]_vars

(* C27 witness: an operation has just been added to a log that holds an
   entry flagged undone, which is still there below the new entry *)
C27_Witness ==
    /\ last.kind = "addOperation"
    /\ Len(TheLog.operationHistory) >= 2
    /\ TheLog.operationHistory[Len(TheLog.operationHistory)].id = last.ret
    /\ \E i \in 1 .. Len(TheLog.operationHistory) - 1 :
         TheLog.operationHistory[i].undone

(* the log without its entry at position i *)
Omitting(history, i) ==
    SubSeq(history, 1, i - 1) \o SubSeq(history, i + 1, Len(history))

(* C28: undoing an erase restores the erased points through replay: if the
   most recent unflagged operation of user U is an erase, then after undo(U)
   the derived state equals the replay of the log with that erase omitted. *)
C28_UndoErase ==
    [][ ( /\ last'.kind = "undo()"
          /\ Unflagged(TheLog.operationHistory, last'.user) # {}
          /\ TheLog.operationHistory[
               Highest(Unflagged(TheLog.operationHistory, last'.user))].type
               = "erase" ) =>
          LET h == TheLog.operationHistory
              i == Highest(Unflagged(h, last'.user))
          IN  GetState(TheLog') = ReplayFrom(Omitting(h, i), 1, <<>>) ]_vars

(* C29: redo(U) selects, among the entries flagged undone with undoneBy = U
   and userId = U, the one at the highest log position, clears its three
   markers and returns it; the log keeps its order, so that the redone
   operation is replayed at its original position; redo(U) returns none iff
   there is no such entry. *)
C29_RedoHighest ==
    [][ last'.kind = "redo()" =>
          LET h == TheLog.operationHistory
              g == TheLog'.operationHistory
              R == Redoable(h, last'.user)
              i == Highest(R)
          IN  /\ last'.ret = None <=> R = {}
              /\ R # {} =>
                   /\ last'.ret = h[i].id
                   /\ last'.idx = i
                   /\ g = [h EXCEPT ![i] = Unmarked(h[i])]
                   /\ GetState(TheLog') = ReplayFrom(g, 1, <<>>) ]_vars

(* C29 witness: a redo has cleared the markers of an entry that has a later
   entry above it, while an older entry flagged by the same user is still
   flagged below it *)
C29_Witness ==
    /\ last.kind = "redo()"
    /\ last.idx # 0
    /\ last.idx < Len(TheLog.operationHistory)
    /\ TheLog.operationHistory[last.idx] = Unmarked(TheLog.operationHistory[last.idx])
    /\ Redoable(TheLog.operationHistory, last.user) # {}
    /\ Highest(Redoable(TheLog.operationHistory, last.user)) < last.idx

(* C30: an operation that has been redone is eligible for undo again: for a
   user U whose most recent operation X is not flagged undone, the calls
   undo(U), redo(U), undo(U) made one after the other return X all three
   times, and after the third X is flagged undone and absent from the derived
   state. *)
C30_UndoRedoUndo ==
    \A U \in LogUsers :
       LET h  == TheLog.operationHistory
           x  == Highest({ i \in DOMAIN h : h[i].userId = U })
           d1 == Undo(TheLog, U)
           d2 == Redo(d1, U)
           d3 == Undo(d2, U)
       IN  (x # 0 /\ ~h[x].undone) =>
             /\ UndoIndex(TheLog, U) = x
             /\ RedoIndex(d1, U) = x
             /\ UndoIndex(d2, U) = x
             /\ d3.operationHistory[x].undone
             /\ GetState(d3) = ReplayFrom(Omitting(h, x), 1, <<>>)

-----------------------------------------------------------------------------
(* Invariants of the log and its derived state *)

(* C31: in every reachable state of a room, with snapshots loaded only as
   exportState produced them, getState() equals the result of folding, from
   the empty stroke set and in log order, exactly the log entries that are
   not flagged undone. *)
C31_StateIsReplay ==
    GetState(TheLog) = ReplayFrom(GetHistory(TheLog), 1, <<>>)

(* C31 witness: an operation has just been folded into a derived state that
   is not empty, on top of a log that holds an entry flagged undone *)
C31_Witness ==
    /\ last.kind = "addOperation"
    /\ GetState(TheLog) # <<>>
    /\ \E i \in DOMAIN TheLog.operationHistory :
         TheLog.operationHistory[i].undone

-----------------------------------------------------------------------------
(* Properties of the handlers that do not log, checked under SpecQuiet *)

(* C32: handling draw-end, cursor-move, ping, get-rooms or save-canvas leaves
   every room's log, derived state and membership set unchanged; these
   messages are never logged. *)
C32_QuietHandlers ==
    [][ last'.kind \in {"draw-end", "cursor-move", "ping", "get-rooms",
                        "save-canvas"} =>
          /\ rooms' = rooms
          /\ roomUsers' = roomUsers
          /\ socketToRoom' = socketToRoom ]_vars

(* C32 witness: a cursor-move has just been handled for a member of a room
   whose log holds an entry *)
C32_Witness ==
    /\ last.kind = "cursor-move"
    /\ last.room \in DOMAIN rooms
    /\ Len(rooms[last.room].operationHistory) > 0
    /\ last.socket \in roomUsers[last.room]

(* C33: in every reachable state, with snapshots loaded only as exportState
   produced them, every log entry flagged undone has undoneBy equal to its
   own userId, and every entry not flagged undone carries no undoneBy and no
   undoneAt marker. *)
C33_MarkersMatchOwner ==
    \A i \in DOMAIN TheLog.operationHistory :
       LET op == TheLog.operationHistory[i]
       IN  /\ op.undone => op.undoneBy = op.userId /\ op.userId # NoUser
           /\ ~op.undone => op.undoneBy = NoUser /\ ~op.undoneAt

(* C33 witness: a redo has just cleared the markers of one entry while an
   entry of another user is flagged undone *)
C33_Witness ==
    /\ last.kind = "redo()"
    /\ last.idx # 0
    /\ ~TheLog.operationHistory[last.idx].undone
    /\ \E i \in DOMAIN TheLog.operationHistory :
         /\ TheLog.operationHistory[i].undone
         /\ TheLog.operationHistory[i].undoneBy # last.user

(* C34: the ids that addOperation assigns within one room are pairwise
   distinct over the whole life of the room, across clear and load-canvas as
   well: the sequence component never goes back, every call takes a value
   above every value taken before, and no two entries of the log share an
   id. *)
C34_IdsDistinct ==
    [][ LET c == TheLog.operationIdCounter
            d == TheLog'.operationIdCounter
            g == TheLog'.operationHistory
        IN  /\ d >= c
            /\ last'.kind \in {"addOperation", "clear", "load-canvas"} =>
                 d = c + 1
            /\ last'.kind = "addOperation" => last'.ret = d
            /\ \A i \in DOMAIN g : g[i].id <= d
            /\ \A i, j \in DOMAIN g : i # j => g[i].id # g[j].id ]_vars

(* C34 witness: an operation has just been added above an entry from which
   a clear or a load-canvas separates it, which took an id in between *)
C34_Witness ==
    /\ last.kind = "addOperation"
    /\ Len(TheLog.operationHistory) = 2
    /\ TheLog.operationHistory[2].id = last.ret
    /\ TheLog.operationHistory[2].id > TheLog.operationHistory[1].id + 1

-----------------------------------------------------------------------------
(* Invariants of the registry and of the transport, checked under Spec *)

(* the sessions subscribed to the transport group of a room *)
Subscribed(roomId) == { s \in Sockets : roomId \in ioRooms[s] }

(* the membership set the registry keeps for a room *)
Members(roomId) ==
    IF roomId \in DOMAIN roomUsers THEN roomUsers[roomId] ELSE {}

(* C35: in every reachable state the set of sessions subscribed to the
   transport group of room R equals the registry's membership set of R: a
   session placed in the default room at connect is subscribed to its group,
   and after join-room a session is subscribed to the group of the new room
   and of no other. *)
C35_GroupsMatchRegistry ==
    \A roomId \in RoomIds \cup DOMAIN roomUsers :
       Subscribed(roomId) = Members(roomId)

(* C36: in every reachable state of the registry each connected session
   belongs to the membership set of exactly one room, that room is the one
   socketToRoom maps it to and it exists in rooms, and no membership set
   contains a session that has disconnected. *)
C36_OneRoomEach ==
    \A s \in Sockets :
       IF Connected(s)
       THEN /\ Cardinality({ r \in DOMAIN roomUsers : s \in roomUsers[r] }) = 1
            /\ s \in Members(socketToRoom[s])
            /\ socketToRoom[s] \in DOMAIN rooms
       ELSE \A r \in DOMAIN roomUsers : s \notin roomUsers[r]

-----------------------------------------------------------------------------
(* Properties of a gesture as the other pages receive it, checked under
   SpecSync *)

(* C37: for one client gesture the strokeId carried by the draw-start delta
   the server broadcasts equals the strokeId carried by the draw-move deltas
   it broadcasts afterwards, so every draw-move delta delivered to a remote
   page of the room is appended to the local stroke the draw-start delta
   created there, and none is dropped for want of a matching stroke. *)
C37_DeltasShareStrokeId ==
    [][ ( /\ last.kind = "draw-start"
          /\ last'.kind = "draw-move"
          /\ last'.socket = last.socket
          /\ last'.room = last.room ) =>
          \A k \in DOMAIN emitted' :
             LET t     == emitted'[k].to
                 op    == emitted'[k].payload.op
                 found == FindStroke(clients[t].localStrokes, op.strokeId)
             IN  /\ \A j \in DOMAIN emitted :
                      emitted[j].payload.op.strokeId = op.strokeId
                 /\ found # 0
                 /\ clients'[t].localStrokes[found].points
                      = Append(clients[t].localStrokes[found].points, op.point)
      ]_vars

-----------------------------------------------------------------------------
(* Properties of the strokes of the derived state, checked under SpecLog *)

(* what the log says of one stroke id, read entry by entry from position i:
   <<>> while no stroke has the id, else its tool and points.  An unflagged
   draw with the id adds its point, to a new stroke when there is none; an
   unflagged erase takes away the points within its radius, and the stroke
   with its last point, unless the tool is eraser. *)
RECURSIVE StrokeFold(_, _, _, _)
StrokeFold(history, i, strokeId, acc) ==
    IF i > Len(history) THEN acc
    ELSE LET op == history[i]
             r  == IF op.radius = 0 THEN DefaultRadius ELSE op.radius
             next ==
               IF op.undone THEN acc
               ELSE IF op.type = "draw" /\ op.strokeId = strokeId
               THEN LET s == IF acc = <<>>
                             THEN [ tool |-> op.tool, points |-> <<>> ]
                             ELSE acc[1]
                    IN  <<[s EXCEPT !.points =
                              IF op.point = NoPoint THEN @
                              ELSE Append(@, op.point)]>>
               ELSE IF op.type = "erase" /\ acc # <<>> /\ acc[1].tool # "eraser"
               THEN LET kept == Beyond(acc[1].points, op.point, r)
                    IN  IF kept = <<>> THEN <<>>
                        ELSE <<[acc[1] EXCEPT !.points = kept]>>
               ELSE acc
         IN  StrokeFold(history, i + 1, strokeId, next)

(* a room's log holds no clear entry: the clear handler empties the log
   that it has just added the entry to *)
NoClearLogged ==
    \A i \in DOMAIN TheLog.operationHistory :
       TheLog.operationHistory[i].type # "clear"

(* C38: in every reachable state of a room no two strokes of getState() share
   an id, and the points of each stroke are the points of the unflagged draw
   operations with that strokeId in log order, minus the points removed by
   erase. *)
C38_StrokesByStrokeId ==
    NoClearLogged =>
       LET strokes == GetState(TheLog)
           h       == GetHistory(TheLog)
       IN  /\ \A i, j \in DOMAIN strokes :
                i # j => strokes[i].id # strokes[j].id
           /\ \A i \in DOMAIN strokes :
                LET f == StrokeFold(h, 1, strokes[i].id, <<>>)
                IN  /\ f # <<>>
                    /\ f[1].points = strokes[i].points

(* C38 witness: a stroke of the derived state that two unflagged draw
   operations share has lost one of their points to an erase and kept the
   other *)
C38_Witness ==
    /\ NoClearLogged
    /\ \E i \in DOMAIN TheLog.strokes :
         /\ Len(TheLog.strokes[i].points) = 1
         /\ Cardinality({ k \in DOMAIN TheLog.operationHistory :
                            /\ TheLog.operationHistory[k].type = "draw"
                            /\ ~TheLog.operationHistory[k].undone
                            /\ TheLog.operationHistory[k].strokeId
                                 = TheLog.strokes[i].id }) = 2
    /\ \E k \in DOMAIN TheLog.operationHistory :
         /\ TheLog.operationHistory[k].type = "erase"
         /\ ~TheLog.operationHistory[k].undone

-----------------------------------------------------------------------------
(* Invariants of the fields of a DrawingState, checked under SpecRebuild *)

(* C39: in every reachable state of a DrawingState every log entry that has a
   userId U and is not flagged undone has its id in the per-user index
   userOperations[U], and every id in userOperations[U] is the id of a log
   entry whose userId is U; after addOperation, undo, redo, rebuildState,
   clear and importState alike. *)
C39_IndexCoversLog ==
    LET h == TheLog.operationHistory
    IN  /\ \A i \in DOMAIN h :
             (h[i].userId # NoUser /\ ~h[i].undone) =>
                h[i].id \in SeqToSet(UserOps(TheLog, h[i].userId))
        /\ \A U \in DOMAIN TheLog.userOperations :
             \A k \in DOMAIN TheLog.userOperations[U] :
                \E i \in DOMAIN h :
                   /\ h[i].id = TheLog.userOperations[U][k]
                   /\ h[i].userId = U

(* C40: in every reachable state of a DrawingState currentHistoryIndex equals
   operationHistory.length - 1, so that the test at the start of addOperation,
   currentHistoryIndex < operationHistory.length - 1, is false and the log is
   never sliced. *)
C40_IndexIsLastPosition ==
    /\ TheLog.currentHistoryIndex = Len(TheLog.operationHistory) - 1
    /\ ~(TheLog.currentHistoryIndex < Len(TheLog.operationHistory) - 1)

(* C40 witness: an undo has just flagged an entry of a log of two, and the
   index still points at the last position *)
C40_Witness ==
    /\ last.kind = "undo()"
    /\ last.ret # None
    /\ Len(TheLog.operationHistory) = 2
    /\ TheLog.currentHistoryIndex = 1

=============================================================================
